---- MODULE Spec2Model ----
(***************************************************************************)
(* Model of the voice-transcription bot (src/bot.py): the checkpoint file, *)
(* the long-poll ingestion loop of main(), the per-message pipeline        *)
(* (download, convert, transcribe, report, cleanup) and the throttled      *)
(* edits of single-configuration mode.                                     *)
(*                                                                         *)
(* Time is counted in ticks of 0.25 s, so MIN_EDIT_INTERVAL (0.5 s) is 2.  *)
(* The clock is read only inside transcribe() and on_segment, so it        *)
(* advances only while the engine works.                                   *)
(* Text is a sequence of tokens; the text of the i-th segment of a         *)
(* transcription is either empty or the single token i.                    *)
(* The checkpoint file holds a string of decimal digits.                   *)
(* send_startup_message() talks to the admin chat only and touches none    *)
(* of the state below; it is left out.                                     *)
(* job and hist record what happened (history variables); the program      *)
(* never reads them.                                                       *)
(*                                                                         *)
(* Beside the bot (Spec, SpecLive) the module holds specifications of its  *)
(* parts taken alone: the configuration grid (SpecGrid), the checkpoint    *)
(* store (SpecStore), the log parser and the realtime factor of            *)
(* src/analyze_logs.py (SpecLog, SpecSession) and the scoring of           *)
(* src/benchmark/benchmark_runner.py (SpecBench).                          *)
(***************************************************************************)
EXTENDS Integers, Sequences, FiniteSets, TLC

\* ------------------------------------------------------------------ bounds
\* the longest comma-separated list read from the environment
MaxList == 2
\* the longest audio and the longest processing time of a logged session,
\* in ticks of 0.25 s
MaxAudio == 40
MaxTotal == 10
\* the most words in a ground truth or a transcript of the benchmark
MaxWords == 3
\* the largest id written to a checkpoint store on its own
MaxId == 12
MaxUpdates == 2      \* updates the platform ever produces
MaxSegs == 2         \* segments one engine run yields at most
MaxTime == 2         \* ticks the clock may advance in total
FirstId == 9         \* update_id of the first update (ids cross 9 -> 10)
Epoch == 10          \* time.time() when the model starts, in ticks

\* ------------------------------------------------------- program constants
MIN_EDIT_INTERVAL == 2               \* 0.5 s, in ticks of 0.25 s
None == "None"
VOICE_FILE_PATH == "voice.oga"
WavPath(voice) == IF voice = VOICE_FILE_PATH THEN "voice.oga.wav" ELSE None
NoUpdate == [update_id |-> 0, kind |-> "none"]

VARIABLES
    pc,               \* position of the process in main()
    bench,            \* benchmark_runner: one run of run_single_benchmark
    session,          \* analyze_logs: the TranscriptionSession being reported
    parser,           \* analyze_logs: parse_log_file at one line of the log
    models,           \* the engine cache: instances by (model name, threads)
    lists,            \* <<BOT_MODELS, BEAM_SIZES, VAD_FILTERS, THREADS_LIST>>
    CONFIGS,          \* the configuration grid, built at import time
    last_update_id,   \* main(): local last_update_id
    updates,          \* main(): the rest of the batch being iterated
    update,           \* main(): the update being processed
    voice_file,       \* main(): result of download_file, or None
    wav_file,         \* main(): voice_file + ".wav", or None
    message_id,       \* main(): id of the placeholder, or None
    last_edit_time,   \* main(): last_edit_time[0]
    cfg,              \* main(): idx of the fan-out loop (0 in single mode)
    start_time,       \* transcribe(): start_time
    full_text,        \* transcribe(): full_text
    nseg,             \* transcribe(): segments consumed so far
    result,           \* main(): result of transcribe
    ckptFile,         \* LAST_UPDATE_FILE: [exists, text]
    files,            \* temp files that exist on disk
    feed,             \* platform: kinds of all updates produced so far
    confirmed,        \* platform: highest confirmed update_id
    now,              \* wall clock, in ticks
    out,              \* requests issued for the current update, in order
    job,              \* what happened to the current update
    hist              \* what happened over the whole run

vars == <<pc, parser, bench, session, models, lists, CONFIGS, last_update_id, updates, update, voice_file, wav_file,
          message_id, last_edit_time, cfg, start_time, full_text, nseg, result,
          ckptFile, files, feed, confirmed, now, out, job, hist>>

\* ------------------------------------------------------------- helpers
Max(a, b) == IF a >= b THEN a ELSE b

RECURSIVE str(_)
\* str(update_id): the decimal digits of a non-negative integer
str(n) == IF n < 10 THEN <<n>> ELSE Append(str(n \div 10), n % 10)

RECURSIVE int(_)
\* int(f.read().strip()) on a non-empty digit string
int(s) == IF Len(s) = 1 THEN s[1]
          ELSE 10 * int(SubSeq(s, 1, Len(s) - 1)) + s[Len(s)]

\* int() raises ValueError on the empty string
Parses(s) == Len(s) > 0

RECURSIVE SeqsUpTo(_, _)
\* all sequences over S of length <= n
SeqsUpTo(S, n) ==
    IF n = 0 THEN {<<>>}
    ELSE LET shorter == SeqsUpTo(S, n - 1)
         IN  shorter \cup {Append(s, x) : s \in {t \in shorter : Len(t) = n - 1}, x \in S}

\* ------------------------------------------------------ configuration grid
\* seeded fault: the VAD list is not iterated, its first value is used
productFirstVad(names, beams, vads, threads) ==
    [i \in 1 .. (Len(names) * Len(beams) * Len(vads) * Len(threads)) |->
        LET j == i - 1
            t == j % Len(threads)
            b == (j \div (Len(threads) * Len(vads))) % Len(beams)
            m == j \div (Len(threads) * Len(vads) * Len(beams))
        IN  <<names[m + 1], beams[b + 1], vads[1], threads[t + 1]>>]

\* seeded fault: the thread count varies slowest and the model fastest
productReversed(names, beams, vads, threads) ==
    [i \in 1 .. (Len(names) * Len(beams) * Len(vads) * Len(threads)) |->
        LET j == i - 1
            m == j % Len(names)
            b == (j \div Len(names)) % Len(beams)
            v == (j \div (Len(names) * Len(beams))) % Len(vads)
            t == j \div (Len(names) * Len(beams) * Len(vads))
        IN  <<names[m + 1], beams[b + 1], vads[v + 1], threads[t + 1]>>]

\* itertools.product: the first list varies slowest, the last fastest
product(names, beams, vads, threads) ==
    [i \in 1 .. (Len(names) * Len(beams) * Len(vads) * Len(threads)) |->
        LET j == i - 1
            t == j % Len(threads)
            v == (j \div Len(threads)) % Len(vads)
            b == (j \div (Len(threads) * Len(vads))) % Len(beams)
            m == j \div (Len(threads) * Len(vads) * Len(beams))
        IN  <<names[m + 1], beams[b + 1], vads[v + 1], threads[t + 1]>>]

\* a variable's value is modelled as the sequence of its comma-separated
\* items, already stripped; "" (for numbers <<>>) is a blank item
NonBlank(x) == x # ""
NonBlankDigits(x) == x # <<>>
lower(x) == IF x = "True" THEN "true" ELSE x

\* [m.strip() for m in val.split(",") if m.strip()]
parse_models(val) == SelectSeq(val, NonBlank)

\* [int(x.strip()) for x in val.split(",") if x.strip()]
parse_ints(val) ==
    LET kept == SelectSeq(val, NonBlankDigits)
    IN  [i \in 1 .. Len(kept) |-> int(kept[i])]

\* [x.strip().lower() == "true" for x in val.split(",") if x.strip()]
parse_bools(val) ==
    LET kept == SelectSeq(val, NonBlank)
    IN  [i \in 1 .. Len(kept) |-> lower(kept[i]) = "true"]

\* the values BOT_MODEL, BEAM_SIZE, VAD_FILTER and THREADS may have
ModelItems == {"base", "small", ""}
BeamItems == {<<1>>, <<5>>}
VadItems == {"true", "True", "false"}
ThreadItems == {<<4>>, <<8>>}
Values(items) == SeqsUpTo(items, MaxList) \ {<<>>}

\* the four lists after parsing; an empty list makes BOT_MODELS[0] (line 53)
\* raise at import, so no process runs with one
ParsedEnvironments ==
    {l \in {<<parse_models(m), parse_ints(b), parse_bools(v), parse_ints(t)>> :
                m \in Values(ModelItems), b \in Values(BeamItems),
                v \in Values(VadItems), t \in Values(ThreadItems)} :
        \A i \in 1 .. 4 : l[i] # <<>>}

\* the environments the process is started in: (BOT_MODEL, BEAM_SIZE,
\* VAD_FILTER, THREADS) after parsing
GridInputs ==
    { <<(<<"base">>), (<<1>>), (<<FALSE>>), (<<4>>)>>,
      <<(<<"base">>), (<<1>>), (<<FALSE>>), (<<4, 8>>)>> }

\* the (model_name, threads) pairs in the order of the two loading loops
LoadOrder(names, threads) ==
    [i \in 1 .. (Len(names) * Len(threads)) |->
        <<names[((i - 1) \div Len(threads)) + 1], threads[((i - 1) % Len(threads)) + 1]>>]

\* no instance loaded yet; an instance is named by its creation number
NoModels == [cache |-> <<>>, created |-> <<>>]

RECURSIVE load_models(_, _)
\* the cache after the first n turns of the loading loops: a WhisperModel is
\* created for a key that is not in the cache yet
load_models(keys, n) ==
    IF n = 0 THEN NoModels
    ELSE LET before == load_models(keys, n - 1)
             made == Len(before.created) + 1
         IN  IF keys[n] \in DOMAIN before.cache
             THEN before
             ELSE [cache |-> [k \in DOMAIN before.cache \cup {keys[n]} |->
                                IF k = keys[n] THEN made ELSE before.cache[k]],
                   created |-> Append(before.created, keys[n])]

\* models once the module is imported
LoadedModels ==
    load_models(LoadOrder(lists[1], lists[4]), Len(lists[1]) * Len(lists[4]))

\* seeded fault: every job runs on the instance of the primary configuration
current_modelPrimary(model_name, threads) == models.cache[<<lists[1][1], lists[4][1]>>]

\* transcribe(): current_model = models[(model_name, threads)]
current_model(model_name, threads) == models.cache[<<model_name, threads>>]

\* seeded fault: >= instead of >
MultiConfigFromOne == Len(CONFIGS) >= 1

MULTI_CONFIG_MODE == Len(CONFIGS) > 1

\* ------------------------------------------------------- checkpoint store
NoFile == [exists |-> FALSE, text |-> <<>>]
FileWith(s) == [exists |-> TRUE, text |-> s]

\* seeded fault: the file is opened "r+": the digits are written over the
\* old ones, and what is left of a longer old content stays
set_last_update_idInPlace(file, update_id, io) ==
    CASE io = "ok"    -> FileWith(str(update_id)
                                    \o SubSeq(file.text, Len(str(update_id)) + 1, Len(file.text)))
      [] io = "open"  -> file
      [] io = "write" -> FileWith(<<>>)

\* set_last_update_id: open(LAST_UPDATE_FILE, "w") truncates, then write
\* io = "ok": written; "open": open() raises, file untouched;
\* "write": write() raises after the truncation
set_last_update_id(file, update_id, io) ==
    CASE io = "ok"    -> FileWith(str(update_id))
      [] io = "open"  -> file
      [] io = "write" -> FileWith(<<>>)

WriteOutcomes == {"ok", "open", "write"}

\* seeded fault: the offset is the checkpoint itself, not the checkpoint + 1
OffsetOffByOne(last) == last

\* seeded fault: no offset is ever passed
OffsetNever(last) == 0

\* the offset main() passes, and get_updates' "if offset:" (0 = no offset)
Offset(last) == IF last # 0 THEN last + 1 ELSE 0

\* ----------------------------------------------------------- the platform
IdOf(i) == FirstId + i - 1
UpdateAt(f, i) == [update_id |-> IdOf(i), kind |-> f[i]]
Kinds == {"voice", "text", "nomsg"}

\* getUpdates: with an offset, updates below it are confirmed and forgotten;
\* the answer holds every unconfirmed update from the offset on, in id order
ConfirmedAfter(offset) == IF offset > 0 THEN Max(confirmed, offset - 1) ELSE confirmed
Answer(f, offset) ==
    LET from == ConfirmedAfter(offset) + 1
        idx == {i \in 1 .. Len(f) : IdOf(i) >= from}
        lo == Len(f) - Cardinality(idx)
    IN  [k \in 1 .. Cardinality(idx) |-> UpdateAt(f, lo + k)]

\* ------------------------------------------------------------- messages
Body(msg, text, marker, stats, idx) ==
    [msg |-> msg, text |-> text, marker |-> marker, stats |-> stats, idx |-> idx]
Req(api, body) == [api |-> api, body |-> body]

\* the requests reqs as issued at time t
Sent(reqs, t) == [i \in 1 .. Len(reqs) |-> [api |-> reqs[i].api, body |-> reqs[i].body, at |-> t]]

\* format_stats_footer: the elapsed time and the configuration it names
\* (the speed figure, duration / elapsed, is not modelled)
NoFooter == [elapsed |-> -1, config |-> <<>>]
format_stats_footer(elapsed, config) == [elapsed |-> elapsed, config |-> config]

\* BOT_MODEL, BEAM_SIZE, VAD_FILTER, THREADS: the first value of each list
DefaultConfig == <<lists[1][1], lists[2][1], lists[3][1], lists[4][1]>>

\* transcribe() returns None, or a dict with the text and the elapsed time
NoResult == [ok |-> FALSE, text |-> <<>>, elapsed |-> 0]
Result(text, elapsed) == [ok |-> TRUE, text |-> text, elapsed |-> elapsed]

NewJob == [net |-> "none", instance |-> 0, skipped |-> "none", acquired |-> "none", converted |-> "none", rm_failed |-> {},
           segs |-> <<>>, engine |-> "none", begun |-> 0, ended |-> 0]

\* --------------------------------------------------------------- Init
\* ---------------------------------------------------------- analyze_logs
\* Optional[...]: None is <<>>, a value x is <<x>>
Absent == <<>>
Some(x) == <<x>>

RECURSIVE gcd(_, _)
gcd(a, b) == IF b = 0 THEN a ELSE gcd(b, a % b)

\* a / b as a fraction in lowest terms (a >= 0, b > 0)
Ratio(a, b) == [num |-> a \div gcd(a, b), den |-> b \div gcd(a, b)]

\* a session no log line has been read for; times in ticks of 0.25 s
NoSession ==
    [start_time |-> 0, end_time |-> Absent, audio_duration_seconds |-> Absent,
     realtime_factor |-> Absent]

\* TranscriptionSession.total_time_seconds; start_time is never None
total_time_seconds(s) ==
    IF s.end_time # Absent THEN Some(s.end_time[1] - s.start_time) ELSE Absent

\* seeded fault: audio duration divided by processing time
realtime_factorInverted(s) ==
    LET total == total_time_seconds(s)
        audio == s.audio_duration_seconds
    IN  IF total # Absent /\ total # Some(0) /\ audio # Absent /\ audio # Some(0)
        THEN Some(Ratio(audio[1], total[1]))
        ELSE Absent

\* TranscriptionSession.realtime_factor: "if self.total_time_seconds and
\* self.audio_duration_seconds" is false for None and for 0.0
realtime_factor(s) ==
    LET total == total_time_seconds(s)
        audio == s.audio_duration_seconds
    IN  IF total # Absent /\ total # Some(0) /\ audio # Absent /\ audio # Some(0)
        THEN Some(Ratio(total[1], audio[1]))
        ELSE Absent

\* bot.py, format_stats_footer: speed = duration / elapsed if elapsed > 0 else 0
\* (the figure printed as "(4.0x)"; the rounding to one decimal is left out)
speed(duration, elapsed) == IF elapsed > 0 THEN Ratio(duration, elapsed) ELSE Ratio(0, 1)

\* ------------------------------------------------------ benchmark_runner
\* a text is the sequence of its whitespace-separated tokens; the tokens a
\* transcript is made of, and what text.lower() and the removal of
\* punctuation make of each ("" when nothing is left)
TranscriptTokens == {"il", "gatto", "cane", "Dorme.", "."}
lowered(tok) == IF tok = "Dorme." THEN "dorme." ELSE tok
unpunctuated(tok) == IF tok = "dorme." THEN "dorme"
                     ELSE IF tok = "Dorme." THEN "Dorme"
                     ELSE IF tok = "." THEN "" ELSE tok
\* the words of a normalized ground truth
GroundWords == {"il", "gatto", "dorme"}

\* seeded fault: no text.lower()
normalize_textKeepsCase(text) ==
    SelectSeq([i \in 1 .. Len(text) |-> unpunctuated(text[i])], NonBlank)

\* normalize_text: lower case, punctuation removed, " ".join(text.split())
normalize_text(text) ==
    SelectSeq([i \in 1 .. Len(text) |-> unpunctuated(lowered(text[i]))], NonBlank)

Min3(a, b, c) == IF a <= b /\ a <= c THEN a ELSE IF b <= c THEN b ELSE c

RECURSIVE EditDistance(_, _, _, _)
\* word-level Levenshtein distance of the first i words of ref and the first
\* j words of hyp (substitutions, deletions, insertions)
EditDistance(ref, hyp, i, j) ==
    IF i = 0 THEN j
    ELSE IF j = 0 THEN i
    ELSE Min3(EditDistance(ref, hyp, i - 1, j) + 1,
              EditDistance(ref, hyp, i, j - 1) + 1,
              EditDistance(ref, hyp, i - 1, j - 1) + (IF ref[i] = hyp[j] THEN 0 ELSE 1))

\* round(x, 4) of x = a / b, in units of 0.0001 (no tie occurs for b < 32)
round4(a, b) == (20000 * a + b) \div (2 * b)

\* round(jiwer.wer(reference, hypothesis), 4): (S + D + I) / number of
\* reference words
wer(reference, hypothesis) ==
    round4(EditDistance(reference, hypothesis, Len(reference), Len(hypothesis)), Len(reference))

\* lines 211-219: the "wer" entry of the result
run_single_benchmark(ground_truth, transcript, success) ==
    IF ground_truth # <<>> /\ success
    THEN IF normalize_text(transcript) # <<>>
         THEN Some(wer(ground_truth, normalize_text(transcript)))
         ELSE Some(round4(1, 1))
    ELSE Absent

NoBench == [ground_truth |-> <<>>, transcript |-> <<>>, success |-> FALSE, wer |-> Absent]

\* nothing polled, stored or sent yet
\* ---------------------------------------------- analyze_logs: the parser
\* the longest log that is parsed
MaxLines == 4

\* the lines parse_log_file tells apart: "voice" has 'Voice message
\* received', "send" has 'Sending message', "audio" has 'Processing audio
\* with duration', "other" has a timestamp and none of the phrases tested,
\* "junk" is blank or has no timestamp (skipped by "continue")
LineKinds == {"voice", "send", "audio", "other", "junk"}

\* parse_timestamp of the i-th line: the log is written in time order, and
\* the position of a line stands for its time
parse_timestamp(i) == i

\* the locals of parse_log_file: the lines of the file, the number of lines
\* read, sessions, current_session (Absent for None)
NoParser == [lines |-> <<>>, pos |-> 0, sessions |-> <<>>, current |-> Absent]

\* seeded fault: a session still open at the next 'Voice message received'
\* is returned too
parse_log_lineKeepsOpen(p) ==
    LET i == p.pos + 1
        kind == p.lines[i]
        read == [p EXCEPT !.pos = i]
    IN  IF kind = "junk" THEN read
        ELSE IF kind = "voice"
        THEN [read EXCEPT
                !.sessions = IF p.current # Absent
                             THEN Append(@, p.current[1]) ELSE @,
                !.current = Some([NoSession EXCEPT !.start_time = parse_timestamp(i)])]
        ELSE IF p.current = Absent THEN read
        ELSE IF kind = "audio"
        THEN [read EXCEPT !.current[1].audio_duration_seconds = Some(1)]
        ELSE IF kind = "send"
        THEN [read EXCEPT
                !.sessions = Append(@, [p.current[1] EXCEPT !.end_time = Some(parse_timestamp(i))]),
                !.current = Absent]
        ELSE read

\* one turn of "for line in f" in parse_log_file (lines 96-136); every
\* "audio" line is taken to report one tick of audio
parse_log_line(p) ==
    LET i == p.pos + 1
        kind == p.lines[i]
        read == [p EXCEPT !.pos = i]
    IN  IF kind = "junk" THEN read
        ELSE IF kind = "voice"
        THEN [read EXCEPT
                !.sessions = IF p.current # Absent /\ p.current[1].end_time # Absent
                             THEN Append(@, p.current[1]) ELSE @,
                !.current = Some([NoSession EXCEPT !.start_time = parse_timestamp(i)])]
        ELSE IF p.current = Absent THEN read
        ELSE IF kind = "audio"
        THEN [read EXCEPT !.current[1].audio_duration_seconds = Some(1)]
        ELSE IF kind = "send"
        THEN [read EXCEPT
                !.sessions = Append(@, [p.current[1] EXCEPT !.end_time = Some(parse_timestamp(i))]),
                !.current = Absent]
        ELSE read

\* after the loop (lines 138-142): the last session, if it was completed
parse_log_end(p) ==
    IF p.current # Absent /\ p.current[1].end_time # Absent
    THEN [p EXCEPT !.sessions = Append(@, p.current[1])]
    ELSE p

Idle ==
    /\ last_update_id = 0
    /\ updates = <<>>
    /\ update = NoUpdate
    /\ voice_file = None
    /\ wav_file = None
    /\ message_id = None
    /\ last_edit_time = 0
    /\ cfg = 0
    /\ start_time = 0
    /\ full_text = <<>>
    /\ nseg = 0
    /\ result = NoResult
    /\ ckptFile = NoFile
    /\ files = {}
    /\ feed = <<>>
    /\ confirmed = FirstId - 1
    /\ now = Epoch
    /\ out = <<>>
    /\ job = NewJob
    /\ hist = [dispatched |-> {}, killed |-> {}, last_seen |-> 0, start_ckpt |-> 0, ckpt_fault |-> FALSE, stored |-> 0, replaced |-> 0]

Init ==
    /\ pc = "start"
    /\ lists \in GridInputs
    /\ CONFIGS = product(lists[1], lists[2], lists[3], lists[4])
    /\ models = LoadedModels
    /\ session = NoSession
    /\ parser = NoParser
    /\ bench = NoBench
    /\ Idle

\* ------------------------------------------------------------- startup
\* get_last_update_id: create the file holding "0" when it is missing, then
\* read it and parse it. Any exception leaves main() and ends the process.
get_last_update_id(file, io, readable) ==
    LET created == IF file.exists THEN file ELSE set_last_update_id(file, 0, io)
        raised == \/ ~file.exists /\ io # "ok"
                  \/ ~readable
                  \/ ~Parses(created.text)
    IN  [file |-> created,
         raised |-> raised,
         value |-> IF raised THEN 0 ELSE int(created.text)]

Startup ==
    /\ pc = "start"
    /\ \E io \in WriteOutcomes, readable \in BOOLEAN :
         LET r == get_last_update_id(ckptFile, io, readable)
         IN  /\ ckptFile' = r.file
             /\ last_update_id' = r.value
             /\ pc' = IF r.raised THEN "dead" ELSE "poll"
             /\ hist' = [hist EXCEPT !.start_ckpt = r.value,
                                     !.ckpt_fault = r.raised,
                                     !.stored = IF Parses(r.file.text)
                                                THEN int(r.file.text) ELSE @]
    /\ UNCHANGED <<parser, bench, session, models, lists, CONFIGS, updates, update, voice_file, wav_file, message_id,
                   last_edit_time, cfg, start_time, full_text, nseg, result,
                   files, feed, confirmed, now, out, job>>

\* ------------------------------------------------------------- polling
\* get_updates: the long poll. New updates reach the platform while the
\* request waits. A transport failure (before the request or after the
\* answer was computed) gives the empty batch.
\* how a long-poll request ends: answered; failed before reaching the
\* platform; answered but the response was lost (timeout, reset); answered
\* with something that is not JSON or has no "result" (an error object)
NetOutcomes == {"ok", "no_request", "no_response", "malformed"}

\* seeded fault: only a request that never left gives the empty batch
get_updatesUnlessSent(net, answer) == IF net = "no_request" THEN <<>> ELSE answer

\* get_updates returns res.json()["result"], or [] on any exception
get_updates(net, answer) == IF net = "ok" THEN answer ELSE <<>>

GetUpdates ==
    /\ pc = "poll"
    /\ \E arrivals \in SeqsUpTo(Kinds, MaxUpdates - Len(feed)),
          net \in NetOutcomes :
         LET offset == Offset(last_update_id)
         IN  /\ feed' = feed \o arrivals
             /\ confirmed' = IF net \in {"no_request", "malformed"} THEN confirmed
                             ELSE ConfirmedAfter(offset)
             /\ updates' = get_updates(net, Answer(feed', offset))
             /\ job' = [job EXCEPT !.net = net]
    /\ pc' = "for"
    /\ UNCHANGED <<parser, bench, session, models, lists, CONFIGS, last_update_id, update, voice_file, wav_file,
                   message_id, last_edit_time, cfg, start_time, full_text, nseg,
                   result, ckptFile, files, now, out, hist>>

\* time.sleep(1) once the batch is drained
Sleep ==
    /\ pc = "for"
    /\ updates = <<>>
    /\ pc' = "poll"
    /\ job' = NewJob
    /\ UNCHANGED <<parser, bench, session, models, lists, CONFIGS, last_update_id, updates, update, voice_file, wav_file,
                   message_id, last_edit_time, cfg, start_time, full_text, nseg,
                   result, ckptFile, files, feed, confirmed, now, out, hist>>

\* seeded fault: a failed checkpoint write does not end the iteration
AfterClaimIgnoringWrite(u, io) ==
    IF u.kind = "voice" THEN "download" ELSE "done"

\* seeded fault: every update that has a message enters the pipeline
AfterClaimAnyMessage(u, io) ==
    IF io = "ok" /\ u.kind # "nomsg" THEN "download" ELSE "done"

\* where the body of the for loop goes after the checkpoint write:
\* an exception (failed write, update without message) and a non-voice
\* message end the iteration, a voice message enters the pipeline
AfterClaim(u, io) ==
    IF io = "ok" /\ u.kind = "voice" THEN "download" ELSE "done"

\* the head of the for loop: last_update_id = update_id;
\* set_last_update_id(update_id); then the dispatch on the message
TakeUpdate ==
    /\ pc = "for"
    /\ updates # <<>>
    /\ \E io \in WriteOutcomes :
         LET u == Head(updates)
         IN  /\ update' = u
             /\ updates' = Tail(updates)
             /\ last_update_id' = u.update_id
             /\ ckptFile' = set_last_update_id(ckptFile, u.update_id, io)
             /\ pc' = AfterClaim(u, io)
             /\ hist' = [hist EXCEPT
                    !.ckpt_fault = @ \/ io # "ok",
                    !.stored = IF io = "ok" THEN u.update_id ELSE @,
                    !.last_seen = u.update_id,
                    !.dispatched = IF AfterClaim(u, io) = "download"
                                   THEN @ \cup {u.update_id} ELSE @]
             /\ job' = [NewJob EXCEPT !.skipped = IF io # "ok" THEN "write_failed"
                                                  ELSE IF u.kind = "voice" THEN "no"
                                                  ELSE u.kind]
    /\ UNCHANGED <<parser, bench, session, models, lists, CONFIGS, voice_file, wav_file, message_id, last_edit_time, cfg,
                   start_time, full_text, nseg, result, files, feed, confirmed,
                   now, out>>

\* the end of one turn of the for loop ("except Exception" included); the
\* locals of the turn are dead from here on and are cleared, except
\* last_edit_time, which the next message reads unless line 381 rebinds it
NextIteration ==
    /\ pc = "done"
    /\ pc' = "for"
    /\ update' = NoUpdate
    /\ voice_file' = None
    /\ wav_file' = None
    /\ message_id' = None
    /\ cfg' = 0
    /\ start_time' = 0
    /\ full_text' = <<>>
    /\ nseg' = 0
    /\ result' = NoResult
    /\ out' = <<>>
    /\ job' = NewJob
    /\ UNCHANGED <<parser, last_edit_time, bench, session, models, lists, CONFIGS, last_update_id, updates, ckptFile, files, feed,
                   confirmed, now, hist>>

\* ------------------------------------------------------------ pipeline
\* seeded fault: the path is returned although the transfer broke off
download_filePartial(r) == IF r = "early" THEN None ELSE VOICE_FILE_PATH

\* download_file: "ok" streams the file to VOICE_FILE_PATH; "early" fails
\* before the local file is opened; "late" fails after it was created
download_file(r) == IF r = "ok" THEN VOICE_FILE_PATH ELSE None

DownloadFile ==
    /\ pc = "download"
    /\ \E r \in {"ok", "early", "late"} :
         /\ voice_file' = download_file(r)
         /\ wav_file' = WavPath(download_file(r))
         /\ files' = IF r = "early" THEN files ELSE files \cup {VOICE_FILE_PATH}
         /\ pc' = IF download_file(r) # None THEN "convert" ELSE "cleanup"
         /\ job' = [job EXCEPT !.acquired = r]
    /\ UNCHANGED <<parser, bench, session, models, lists, CONFIGS, last_update_id, updates, update, message_id,
                   last_edit_time, cfg, start_time, full_text, nseg, result,
                   ckptFile, feed, confirmed, now, out, hist>>

\* seeded fault: a failed conversion leaves main()
AfterConvertFatal(converted) ==
    IF ~converted THEN "dead"
    ELSE IF MULTI_CONFIG_MODE THEN "announce" ELSE "placeholder"

\* seeded fault: after a failed conversion the loop polls at once, the
\* message still open
AfterConvertPolls(converted) ==
    IF ~converted THEN "poll"
    ELSE IF MULTI_CONFIG_MODE THEN "announce" ELSE "placeholder"

\* seeded fault: the return value of convert_oga_to_wav is not tested
AfterConvertUntested(converted) ==
    IF MULTI_CONFIG_MODE THEN "announce" ELSE "placeholder"

\* seeded fault: the cleanup is not in a finally, so that a failed
\* conversion ends the turn without it
AfterConvertSkipsCleanup(converted) ==
    IF ~converted THEN "done"
    ELSE IF MULTI_CONFIG_MODE THEN "announce" ELSE "placeholder"

\* where main() goes after convert_oga_to_wav returned
AfterConvert(converted) ==
    IF ~converted THEN "cleanup"
    ELSE IF MULTI_CONFIG_MODE THEN "announce" ELSE "placeholder"

\* convert_oga_to_wav: ffmpeg writes the wav file and exits 0, or fails
\* having written nothing or a partial file
ConvertOgaToWav ==
    /\ pc = "convert"
    /\ \E r \in {"ok", "nothing", "partial"} :
         /\ files' = IF r = "nothing" THEN files ELSE files \cup {wav_file}
         /\ pc' = AfterConvert(r = "ok")
         /\ job' = [job EXCEPT !.converted = IF r = "ok" THEN "ok" ELSE "failed"]
    /\ UNCHANGED <<parser, bench, session, models, lists, CONFIGS, last_update_id, updates, update, voice_file, wav_file,
                   message_id, last_edit_time, cfg, start_time, full_text, nseg,
                   result, ckptFile, feed, confirmed, now, out, hist>>

\* how a sendMessage / editMessageText request ends: answered, or
\* requests.post raises (connection error, timeout)
Deliveries == {"ok", "failed"}

\* seeded fault: the exception of a failed request is caught nowhere and
\* ends main()
AfterRequestDies(delivery, next) == IF delivery = "failed" THEN "dead" ELSE next

\* seeded fault: the exception of a failed request is not caught in the
\* helper, so it leaves the try block of the message through its finally
AfterRequestRaises(delivery, next) == IF delivery = "failed" THEN "cleanup" ELSE next

\* send_message / send_message_and_get_id / edit_message: "except Exception"
\* logs the failure and returns, so the caller goes on where it would have
AfterRequest(delivery, next) == next

\* fan-out mode: send_message(chat_id, "Processing with N configurations...")
SendAnnouncement ==
    /\ pc = "announce"
    /\ out' = out \o Sent(<<Req("sendMessage", Body("Processing", <<>>, TRUE, NoFooter, Len(CONFIGS)))>>, now)
    /\ cfg' = 1
    /\ \E delivery \in Deliveries :
         pc' = AfterRequest(delivery, "transcribe")
    /\ UNCHANGED <<parser, bench, session, models, lists, CONFIGS, last_update_id, updates, update, voice_file, wav_file,
                   message_id, last_edit_time, start_time, full_text, nseg, result,
                   ckptFile, files, feed, confirmed, now, job, hist>>

\* seeded fault: the list of the previous message is kept
NewLastEditTimeKept(previous) == previous

\* last_edit_time = [0]: a new list for every message, whatever the old one
NewLastEditTime(previous) == 0

\* single mode: message_id = send_message_and_get_id(chat_id, "Transcribing...")
\* (None when the request fails); last_edit_time = [0]
SendPlaceholder ==
    /\ pc = "placeholder"
    /\ \E delivery \in Deliveries :
         /\ message_id' = IF delivery = "ok" THEN "msg" ELSE None
         /\ pc' = AfterRequest(delivery, "transcribe")
    /\ out' = out \o Sent(<<Req("sendMessage", Body("Transcribing", <<>>, TRUE, NoFooter, 0))>>, now)
    /\ last_edit_time' = NewLastEditTime(last_edit_time)
    /\ cfg' = 0
    /\ UNCHANGED <<parser, bench, session, models, lists, CONFIGS, last_update_id, updates, update, voice_file, wav_file,
                   start_time, full_text, nseg, result, ckptFile, files, feed,
                   confirmed, now, job, hist>>

\* ---------------------------------------------------------- transcribe
\* the ticks that may pass before the next event of the engine
Delays == 0 .. (Epoch + MaxTime - now)

\* the ticks that may pass before the next segment: without on_segment the
\* clock is not read until the generator ends, so in fan-out mode the time
\* the segments take is counted in the delay of that last event
SegmentDelays == IF cfg = 0 THEN Delays ELSE {0}

\* the text of the next segment: empty, or the token of its position
SegmentTexts == {<<>>, <<nseg + 1>>}

\* transcribe(): start_time = time.time(); the engine call either raises
\* (caught: return None) or hands back the lazy segment generator
\* the configuration transcribe() is called with: the defaults in single
\* mode, the idx-th of the grid in fan-out mode
JobConfig == IF cfg = 0 THEN DefaultConfig ELSE CONFIGS[cfg]

TranscribeBegin ==
    /\ pc = "transcribe"
    /\ start_time' = now
    /\ full_text' = <<>>
    /\ nseg' = 0
    /\ \E raises \in BOOLEAN :
         /\ pc' = IF raises THEN "report" ELSE "segments"
         /\ result' = NoResult
         /\ job' = [job EXCEPT !.segs = <<>>, !.begun = now, !.ended = now,
                               !.instance = current_model(JobConfig[1], JobConfig[4]),
                               !.engine = IF raises THEN "raised" ELSE "running"]
    /\ UNCHANGED <<parser, bench, session, models, lists, CONFIGS, last_update_id, updates, update, voice_file, wav_file,
                   message_id, last_edit_time, cfg, ckptFile, files, feed,
                   confirmed, now, out, hist>>

\* seeded fault: no throttle
TransmitsAlways(t, last) == TRUE

\* seeded fault: the throttle compares with > instead of >=
TransmitsStrict(t, last) == t - last > MIN_EDIT_INTERVAL

\* seeded fault: full_text = segment.text instead of +=
AccumulateLast(full, text) == text

\* full_text += segment.text.strip() + " "
Accumulate(full, text) == full \o text

\* on_segment(partial_text): the throttle of single mode
Transmits(t, last) == t - last >= MIN_EDIT_INTERVAL

\* seeded fault: the partial edit carries no continuation marker
PartialEditNoMarker(partial_text) ==
    Req("editMessageText", Body("Speech", partial_text, FALSE, NoFooter, 0))

\* the edit on_segment issues
PartialEdit(partial_text) ==
    Req("editMessageText", Body("Speech", partial_text, TRUE, NoFooter, 0))

\* seeded fault: the callback is passed in fan-out mode too
on_segmentAlways == TRUE

\* transcribe() is given on_segment in single mode only (lines 390, 362)
on_segment == cfg = 0

\* one turn of "for segment in segments": the segment arrives after d ticks,
\* its text is appended, and in single mode on_segment is called with the
\* accumulated text
NextSegment ==
    /\ pc = "segments"
    /\ nseg < MaxSegs
    /\ \E d \in SegmentDelays, text \in SegmentTexts :
         /\ now' = now + d
         /\ full_text' = Accumulate(full_text, text)
         /\ nseg' = nseg + 1
         /\ IF on_segment /\ Transmits(now + d, last_edit_time)
            THEN /\ out' = out \o Sent(<<PartialEdit(Accumulate(full_text, text))>>, now + d)
                 /\ last_edit_time' = now + d
                 /\ \E delivery \in Deliveries :
                      pc' = AfterRequest(delivery, "segments")
            ELSE UNCHANGED <<pc, out, last_edit_time>>
         /\ job' = [job EXCEPT !.segs = Append(@, text), !.ended = now + d]
    /\ UNCHANGED <<parser, bench, session, models, lists, CONFIGS, last_update_id, updates, update, voice_file,
                   wav_file, message_id, cfg, start_time, result, ckptFile, files,
                   feed, confirmed, hist>>

\* the generator raises after d ticks: "except Exception: return None"
EngineRaises ==
    /\ pc = "segments"
    /\ \E d \in Delays :
         /\ now' = now + d
         /\ job' = [job EXCEPT !.engine = "raised", !.ended = now + d]
    /\ result' = NoResult
    /\ pc' = "report"
    /\ UNCHANGED <<parser, bench, session, models, lists, CONFIGS, last_update_id, updates, update, voice_file, wav_file,
                   message_id, last_edit_time, cfg, start_time, full_text, nseg,
                   ckptFile, files, feed, confirmed, out, hist>>

\* what transcribe() returns once the generator is exhausted
TranscribeResult(text, elapsed) ==
    IF text = <<>> THEN NoResult ELSE Result(text, elapsed)

\* the generator is exhausted after d ticks: elapsed = time.time() - start_time
TranscribeEnd ==
    /\ pc = "segments"
    /\ \E d \in Delays :
         /\ now' = now + d
         /\ result' = TranscribeResult(full_text, now + d - start_time)
         /\ job' = [job EXCEPT !.engine = IF full_text = <<>> THEN "empty" ELSE "ok",
                               !.ended = now + d]
    /\ pc' = "report"
    /\ UNCHANGED <<parser, bench, session, models, lists, CONFIGS, last_update_id, updates, update, voice_file, wav_file,
                   message_id, last_edit_time, cfg, start_time, full_text, nseg,
                   ckptFile, files, feed, confirmed, out, hist>>

\* ------------------------------------------------------------- report
\* seeded fault: the final edit of a success carries no stats footer
FinalEditNoFooter(res) ==
    IF res.ok
    THEN Req("editMessageText", Body("Speech", res.text, FALSE, NoFooter, 0))
    ELSE Req("editMessageText", Body("CouldNot", <<>>, FALSE, NoFooter, 0))

\* seeded fault: the final edit of a failure carries what text there is
FinalEditKeepsText(res) ==
    IF res.ok
    THEN Req("editMessageText",
             Body("Speech", res.text, FALSE, format_stats_footer(res.elapsed, DefaultConfig), 0))
    ELSE Req("editMessageText", Body("Speech", full_text, FALSE, NoFooter, 0))

\* single mode, after transcribe(): the final edit. The log.info(chat_id, ...)
\* of line 397 fails to format inside the logging handler, which does not
\* raise, so the edit of line 398 is always reached.
FinalEdit(res) ==
    IF res.ok
    THEN Req("editMessageText",
             Body("Speech", res.text, FALSE, format_stats_footer(res.elapsed, DefaultConfig), 0))
    ELSE Req("editMessageText", Body("CouldNot", <<>>, FALSE, NoFooter, 0))

\* seeded fault: a failed transcription is logged only
FinalEditsOnSuccess(res) == IF res.ok THEN <<FinalEdit(res)>> ELSE <<>>

\* lines 392-398: one edit_message call on either branch
FinalEdits(res) == <<FinalEdit(res)>>

ReportSingle ==
    /\ pc = "report"
    /\ cfg = 0
    /\ out' = out \o Sent(FinalEdits(result), now)
    /\ \E delivery \in Deliveries :
         pc' = AfterRequest(delivery, "cleanup")
    /\ UNCHANGED <<parser, bench, session, models, lists, CONFIGS, last_update_id, updates, update, voice_file, wav_file,
                   message_id, last_edit_time, cfg, start_time, full_text, nseg,
                   result, ckptFile, files, feed, confirmed, now, job, hist>>

\* fan-out mode, after transcribe() of configuration idx
ConfigMessage(res, idx) ==
    IF res.ok
    THEN Req("sendMessage",
             Body("Speech", res.text, FALSE, format_stats_footer(res.elapsed, CONFIGS[idx]), 0))
    ELSE Req("sendMessage", Body("Failed", <<>>, FALSE, NoFooter, idx))

\* seeded fault: a failed configuration ends the fan-out loop
AfterConfigStopsOnFailure(res, idx) ==
    IF res.ok /\ idx < Len(CONFIGS) THEN "transcribe" ELSE "cleanup"

\* the fan-out loop goes on to the next configuration, whatever the result
AfterConfig(res, idx) == IF idx < Len(CONFIGS) THEN "transcribe" ELSE "cleanup"

ReportConfig ==
    /\ pc = "report"
    /\ cfg > 0
    /\ out' = out \o Sent(<<ConfigMessage(result, cfg)>>, now)
    /\ \E delivery \in Deliveries :
         pc' = AfterRequest(delivery, AfterConfig(result, cfg))
    /\ cfg' = IF AfterConfig(result, cfg) = "transcribe" THEN cfg + 1 ELSE cfg
    /\ UNCHANGED <<parser, bench, session, models, lists, CONFIGS, last_update_id, updates, update, voice_file, wav_file,
                   message_id, last_edit_time, start_time, full_text, nseg, result,
                   ckptFile, files, feed, confirmed, now, job, hist>>

\* ------------------------------------------------------------ cleanup
\* seeded fault: only the downloaded file is removed
RemovableVoiceOnly(paths) == {p \in paths : p = VOICE_FILE_PATH /\ p \in files}

\* the paths cleanup_temp_files calls os.remove on
Removable(paths) == {p \in paths : p # None /\ p \in files}

\* seeded fault: one try around the whole loop, so that the first failing
\* os.remove ends the cleanup (the paths are visited in argument order)
cleanup_temp_filesStopsAtFailure(fs, paths, failing) ==
    LET first == paths[1]
    IN  IF first \in failing THEN fs
        ELSE fs \ (Removable({paths[i] : i \in 1 .. Len(paths)}) \ failing)

\* cleanup_temp_files(*file_paths): the files left once every path was
\* visited, each in a try of its own; the os.remove of the paths in failing
\* raises, which is logged and leaves that file in place
cleanup_temp_files(fs, paths, failing) ==
    fs \ (Removable({paths[i] : i \in 1 .. Len(paths)}) \ failing)

\* finally: cleanup_temp_files(voice_file, wav_file)
CleanupTempFiles ==
    /\ pc = "cleanup"
    /\ \E failing \in SUBSET Removable({voice_file, wav_file}) :
         /\ files' = cleanup_temp_files(files, <<voice_file, wav_file>>, failing)
         /\ job' = [job EXCEPT !.rm_failed = failing]
    /\ pc' = "done"
    /\ UNCHANGED <<parser, bench, session, models, lists, CONFIGS, last_update_id, updates, update, voice_file, wav_file,
                   message_id, last_edit_time, cfg, start_time, full_text, nseg,
                   result, ckptFile, feed, confirmed, now, out, hist>>

\* ------------------------------------------------------------ restart
\* the process is between download_file and the end of cleanup_temp_files
InPipeline ==
    pc \in {"download", "convert", "announce", "placeholder", "transcribe",
            "segments", "report", "cleanup"}

\* the process is killed at any point (or has died) and is started again:
\* the files stay, the locals of main() are gone
Restart ==
    /\ pc # "start"
    /\ pc' = "start"
    /\ last_update_id' = 0
    /\ updates' = <<>>
    /\ update' = NoUpdate
    /\ voice_file' = None
    /\ wav_file' = None
    /\ message_id' = None
    /\ last_edit_time' = 0
    /\ cfg' = 0
    /\ start_time' = 0
    /\ full_text' = <<>>
    /\ nseg' = 0
    /\ result' = NoResult
    /\ out' = <<>>
    /\ job' = NewJob
    /\ hist' = [hist EXCEPT !.ckpt_fault = FALSE, !.start_ckpt = 0, !.last_seen = 0,
                            !.killed = IF InPipeline THEN @ \cup {update.update_id} ELSE @]
    /\ UNCHANGED <<parser, bench, session, models, lists, CONFIGS, ckptFile, files, feed, confirmed, now>>

Next ==
    \/ Startup
    \/ GetUpdates
    \/ Sleep
    \/ TakeUpdate
    \/ NextIteration
    \/ DownloadFile
    \/ ConvertOgaToWav
    \/ SendAnnouncement
    \/ SendPlaceholder
    \/ TranscribeBegin
    \/ NextSegment
    \/ EngineRaises
    \/ TranscribeEnd
    \/ ReportSingle
    \/ ReportConfig
    \/ CleanupTempFiles
    \/ Restart

Spec == Init /\ [][Next]_vars

\* a step of the program itself, as opposed to a kill from outside
Program ==
    \/ Startup
    \/ GetUpdates
    \/ Sleep
    \/ TakeUpdate
    \/ NextIteration
    \/ DownloadFile
    \/ ConvertOgaToWav
    \/ SendAnnouncement
    \/ SendPlaceholder
    \/ TranscribeBegin
    \/ NextSegment
    \/ EngineRaises
    \/ TranscribeEnd
    \/ ReportSingle
    \/ ReportConfig
    \/ CleanupTempFiles

\* the process left alone (no shutdown), with every external call (long
\* poll, download, converter, engine, send, edit, delete, sleep) returning
\* or failing eventually: the program, single-threaded, takes its next step
\* whenever it has one
\* the state after construction, with the clock at the last instant that
\* is told apart: every delay is then zero ticks long, durations playing
\* no part in whether the loop goes round
InitLive ==
    /\ pc = "start"
    /\ lists \in GridInputs
    /\ CONFIGS = product(lists[1], lists[2], lists[3], lists[4])
    /\ models = LoadedModels
    /\ session = NoSession
    /\ parser = NoParser
    /\ bench = NoBench
    /\ last_update_id = 0 /\ updates = <<>> /\ update = NoUpdate
    /\ voice_file = None /\ wav_file = None /\ message_id = None
    /\ last_edit_time = 0 /\ cfg = 0 /\ start_time = 0
    /\ full_text = <<>> /\ nseg = 0 /\ result = NoResult
    /\ ckptFile = NoFile /\ files = {} /\ feed = <<>>
    /\ confirmed = FirstId - 1
    /\ now = Epoch + MaxTime
    /\ out = <<>> /\ job = NewJob
    /\ hist = [dispatched |-> {}, killed |-> {}, last_seen |-> 0, start_ckpt |-> 0, ckpt_fault |-> FALSE, stored |-> 0, replaced |-> 0]

SpecLive == InitLive /\ [][Program]_vars /\ WF_vars(Program)

\* --------------------------------------------- the grid, for any environment
\* the module is being imported: the four lists are parsed (lines 47-50)
InitGrid ==
    /\ pc = "import"
    /\ lists \in ParsedEnvironments
    /\ CONFIGS = <<>>
    /\ models = NoModels
    /\ session = NoSession
    /\ parser = NoParser
    /\ bench = NoBench
    /\ Idle

\* line 59: CONFIGS = list(product(BOT_MODELS, BEAM_SIZES, VAD_FILTERS, THREADS_LIST))
\* lines 94-102: the engines are loaded
BuildGrid ==
    /\ pc = "import"
    /\ CONFIGS' = product(lists[1], lists[2], lists[3], lists[4])
    /\ models' = LoadedModels
    /\ pc' = "start"
    /\ UNCHANGED <<parser, bench, session, lists, last_update_id, updates, update, voice_file, wav_file,
                   message_id, last_edit_time, cfg, start_time, full_text, nseg,
                   result, ckptFile, files, feed, confirmed, now, out, job, hist>>

NextGrid == BuildGrid

SpecGrid == InitGrid /\ [][NextGrid]_vars

\* ------------------------------------- analyze_logs, for any parsed session
\* a session as parse_log_file leaves it: started, with or without an end
\* and an audio duration
ParsedSessions ==
    {s \in [start_time : 0 .. 1,
            end_time : {Absent} \cup {Some(t) : t \in 0 .. (MaxTotal + 1)},
            audio_duration_seconds : {Absent} \cup {Some(d) : d \in 0 .. MaxAudio},
            realtime_factor : {Absent}] :
        s.end_time # Absent => s.end_time[1] - s.start_time \in 0 .. MaxTotal}

InitSession ==
    /\ pc = "session"
    /\ session \in ParsedSessions
    /\ bench = NoBench
    /\ lists \in GridInputs
    /\ CONFIGS = product(lists[1], lists[2], lists[3], lists[4])
    /\ models = LoadedModels
    /\ parser = NoParser
    /\ Idle

\* main() of analyze_logs evaluates s.realtime_factor for the report
ReportSession ==
    /\ pc = "session"
    /\ session' = [session EXCEPT !.realtime_factor = realtime_factor(session)]
    /\ pc' = "reported"
    /\ UNCHANGED <<parser, bench, models, lists, CONFIGS, last_update_id, updates, update, voice_file,
                   wav_file, message_id, last_edit_time, cfg, start_time, full_text, nseg,
                   result, ckptFile, files, feed, confirmed, now, out, job, hist>>

NextSession == ReportSession

SpecSession == InitSession /\ [][NextSession]_vars

\* --------------------------------------- analyze_logs, for any log file
InitLog ==
    /\ pc = "parse"
    /\ parser \in {[NoParser EXCEPT !.lines = l] : l \in SeqsUpTo(LineKinds, MaxLines)}
    /\ session = NoSession
    /\ bench = NoBench
    /\ lists \in GridInputs
    /\ CONFIGS = product(lists[1], lists[2], lists[3], lists[4])
    /\ models = LoadedModels
    /\ Idle

\* the loop of parse_log_file reads the next line
ParseLine ==
    /\ pc = "parse"
    /\ parser.pos < Len(parser.lines)
    /\ parser' = parse_log_line(parser)
    /\ UNCHANGED <<pc, bench, session, models, lists, CONFIGS, last_update_id, updates, update,
                   voice_file, wav_file, message_id, last_edit_time, cfg, start_time,
                   full_text, nseg, result, ckptFile, files, feed, confirmed, now,
                   out, job, hist>>

\* the end of the file: parse_log_file returns sessions
ParseEnd ==
    /\ pc = "parse"
    /\ parser.pos = Len(parser.lines)
    /\ parser' = parse_log_end(parser)
    /\ pc' = "parsed"
    /\ UNCHANGED <<bench, session, models, lists, CONFIGS, last_update_id, updates, update,
                   voice_file, wav_file, message_id, last_edit_time, cfg, start_time,
                   full_text, nseg, result, ckptFile, files, feed, confirmed, now,
                   out, job, hist>>

NextLog == ParseLine \/ ParseEnd

SpecLog == InitLog /\ [][NextLog]_vars

\* ------------------------------------ benchmark_runner, for any single run
\* the transcription is over: the ground truth as load_samples normalized it
\* ("" when the sample has none), the transcript ("" when the engine raised)
BenchRuns ==
    {b \in [ground_truth : SeqsUpTo(GroundWords, MaxWords),
            transcript : SeqsUpTo(TranscriptTokens, MaxWords),
            success : BOOLEAN,
            wer : {Absent}] :
        ~b.success => b.transcript = <<>>}

InitBench ==
    /\ pc = "transcribed"
    /\ bench \in BenchRuns
    /\ session = NoSession
    /\ parser = NoParser
    /\ lists \in GridInputs
    /\ CONFIGS = product(lists[1], lists[2], lists[3], lists[4])
    /\ models = LoadedModels
    /\ Idle

\* "Calculate WER if we have ground truth"
ScoreBench ==
    /\ pc = "transcribed"
    /\ bench' = [bench EXCEPT !.wer = run_single_benchmark(bench.ground_truth,
                                                          bench.transcript, bench.success)]
    /\ pc' = "scored"
    /\ UNCHANGED <<parser, session, models, lists, CONFIGS, last_update_id, updates, update,
                   voice_file, wav_file, message_id, last_edit_time, cfg, start_time,
                   full_text, nseg, result, ckptFile, files, feed, confirmed, now, out,
                   job, hist>>

NextBench == ScoreBench

SpecBench == InitBench /\ [][NextBench]_vars

\* ------------------------------- the checkpoint store, for any id sequence
\* no checkpoint file yet
InitStore ==
    /\ pc = "store"
    /\ lists \in GridInputs
    /\ CONFIGS = product(lists[1], lists[2], lists[3], lists[4])
    /\ models = LoadedModels
    /\ session = NoSession
    /\ parser = NoParser
    /\ bench = NoBench
    /\ Idle

\* set_last_update_id(update_id) for any id; hist.stored is the id of the
\* last call that returned, hist.replaced the one before it
StoreWrite ==
    /\ pc \in {"store", "read"}
    /\ \E update_id \in 0 .. MaxId, io \in WriteOutcomes :
         /\ ckptFile' = set_last_update_id(ckptFile, update_id, io)
         /\ hist' = [hist EXCEPT !.ckpt_fault = io # "ok",
                                 !.stored = IF io = "ok" THEN update_id ELSE @,
                                 !.replaced = IF io = "ok" THEN hist.stored ELSE @]
    /\ pc' = "store"
    /\ UNCHANGED <<parser, bench, session, models, lists, CONFIGS, last_update_id, updates, update,
                   voice_file, wav_file, message_id, last_edit_time, cfg, start_time,
                   full_text, nseg, result, files, feed, confirmed, now, out, job>>

\* last_update_id = get_last_update_id(); an exception ends the caller
StoreRead ==
    /\ pc \in {"store", "read"}
    /\ \E io \in WriteOutcomes, readable \in BOOLEAN :
         LET r == get_last_update_id(ckptFile, io, readable)
         IN  /\ ckptFile' = r.file
             /\ last_update_id' = r.value
             /\ pc' = IF r.raised THEN "dead" ELSE "read"
             /\ hist' = [hist EXCEPT !.start_ckpt = r.value]
    /\ UNCHANGED <<parser, bench, session, models, lists, CONFIGS, updates, update, voice_file,
                   wav_file, message_id, last_edit_time, cfg, start_time, full_text, nseg,
                   result, files, feed, confirmed, now, out, job>>

NextStore == StoreWrite \/ StoreRead

SpecStore == InitStore /\ [][NextStore]_vars

\* =================================================================
\* Properties
\* =================================================================
CheckpointValue == int(ckptFile.text)
CheckpointHolds(n) == ckptFile.exists /\ Parses(ckptFile.text) /\ CheckpointValue = n
Drained == pc \in {"for", "poll"} /\ updates = <<>>
TempFiles == {VOICE_FILE_PATH, WavPath(VOICE_FILE_PATH)}
Finished == pc = "done" /\ job.skipped = "no"
Edits == {i \in 1 .. Len(out) : out[i].api = "editMessageText"}
Reports == {i \in 1 .. Len(out) : out[i].body.msg \in {"Speech", "CouldNot", "Failed"}}

RECURSIVE Concat(_)
\* the texts of a sequence of segments, joined in order
Concat(segs) == IF segs = <<>> THEN <<>> ELSE Concat(SubSeq(segs, 1, Len(segs) - 1)) \o segs[Len(segs)]

\* C1: once the batches seen by this process are drained, the checkpoint file
\* and last_update_id both hold the id of the last update taken from a batch.
\* Violated: a failed checkpoint write is swallowed by "except Exception".
C1_CheckpointIsLastSeen ==
    (Drained /\ hist.last_seen > 0)
        => (CheckpointHolds(hist.last_seen) /\ last_update_id = hist.last_seen)

\* C2: a process that started from a persisted checkpoint c > 0 never has an
\* update with id <= c in its pipeline.
C2_NoRedispatchBelowCheckpoint ==
    (InPipeline /\ hist.start_ckpt > 0) => update.update_id > hist.start_ckpt

\* C2 witness: after a restart that read checkpoint FirstId, the next update
\* enters the pipeline.
C2_Witness ==
    pc = "download" /\ hist.start_ckpt = FirstId /\ update.update_id = FirstId + 1

\* C3: a value written to the checkpoint file is never lower than the value
\* stored before it.
C3_CheckpointMonotonic ==
    [][(ckptFile' # ckptFile /\ Parses(ckptFile'.text))
          => int(ckptFile'.text) >= hist.stored]_vars

\* C3 witness: the second update's id has been written over the first one's.
C3_Witness ==
    CheckpointHolds(FirstId + 1) /\ hist.last_seen = FirstId + 1 /\ FirstId \in hist.dispatched

\* C4: while an update is in the pipeline the file holds its id, so a kill at
\* any of these points leaves a checkpoint >= the id; and an update that was
\* dispatched once is never dispatched again, by this process or a later one.
C4_CheckpointBeforePipeline ==
    /\ [](InPipeline => CheckpointHolds(update.update_id))
    /\ [][(pc' = "download" /\ pc # "download")
             => update'.update_id \notin hist.dispatched]_vars

\* C4 witness: the process was killed while update FirstId was in the
\* pipeline, and the restarted process dispatches the next update.
C4_Witness ==
    pc = "download" /\ FirstId \in hist.killed /\ update.update_id = FirstId + 1

\* C5: after a failed read or write of the checkpoint the process is dead.
\* Violated: a failed write inside the for loop is caught and the loop goes on.
C5_CheckpointFaultIsFatal ==
    hist.ckpt_fault => pc = "dead"

\* C6 as claimed: after a message whose audio was acquired is finished
\* (conversion failed, transcription failed or succeeded), no temp file exists.
C6_NoTempFileLeft ==
    (Finished /\ job.acquired = "ok") => files \cap TempFiles = {}

\* C6 amended: after such a message is finished, the only temp files left are
\* those whose os.remove raised.
C6_NoTempFileLeftUnlessRemoveFailed ==
    (Finished /\ job.acquired = "ok") => files \cap TempFiles = job.rm_failed

\* C6 witness: fan-out mode, the last configuration's transcription raised,
\* and both files are gone.
C6_Witness ==
    /\ Finished /\ job.acquired = "ok" /\ job.converted = "ok"
    /\ cfg = Len(CONFIGS) /\ job.engine = "raised" /\ files = {}

\* C7: when the download failed after the local file was created, the file
\* is gone once the message is finished.
\* Violated: download_file returns None, so cleanup_temp_files gets no path.
C7_FailedDownloadLeavesNoFile ==
    (Finished /\ job.acquired = "late") => VOICE_FILE_PATH \notin files

\* C8 as claimed: a finished message whose audio was acquired has at least
\* one report (text or failure notice) among its requests.
C8_AcquiredIsReported ==
    (Finished /\ job.acquired = "ok") => Reports # {}

\* C8 amended: a finished message whose audio was acquired and converted has
\* at least one report; after a failed acquisition or conversion no request
\* was issued at all.
C8_ConvertedIsReported ==
    /\ (Finished /\ job.converted = "ok") => Reports # {}
    /\ (Finished /\ job.converted # "ok") => out = <<>>

\* C8 witness: single mode, the engine raised before any segment, and the
\* failure notice is the only report.
C8_Witness ==
    /\ Finished /\ job.converted = "ok" /\ ~MULTI_CONFIG_MODE
    /\ job.engine = "raised" /\ job.segs = <<>>
    /\ Cardinality(Reports) = 1

\* the transcription of single mode is over and its final edit was issued
SingleReported == pc \in {"cleanup", "done"} /\ job.converted = "ok" /\ ~MULTI_CONFIG_MODE
TotalDuration == job.ended - job.begun
CeilDiv(a, b) == (a + b - 1) \div b

\* C9 as claimed: the edits of a message number at most
\* ceil(total_duration / MIN_EDIT_INTERVAL) + 1.
C9_EditsAtMostCeilPlusOne ==
    SingleReported => Cardinality(Edits) <= CeilDiv(TotalDuration, MIN_EDIT_INTERVAL) + 1

\* C9 amended: the edits of a message number at most
\* floor(total_duration / MIN_EDIT_INTERVAL) + 2.
C9_EditsAtMostFloorPlusTwo ==
    SingleReported => Cardinality(Edits) <= (TotalDuration \div MIN_EDIT_INTERVAL) + 2

\* C9 witness: two segments one interval apart, both offers transmitted, then
\* the final edit: three edits over a duration of exactly one interval.
C9_Witness ==
    SingleReported /\ TotalDuration = MIN_EDIT_INTERVAL /\ Cardinality(Edits) = 3

\* C10: after a successful transcription in single mode the last request is
\* an edit carrying the texts of all segments, in order.
C10_LastEditHasFullText ==
    (SingleReported /\ result.ok)
        => /\ out[Len(out)].api = "editMessageText"
           /\ out[Len(out)].body.text = Concat(job.segs)

\* C10 witness: the offer made after the last segment was dropped (the last
\* partial edit lacks the last segment's text), and the final edit has it.
C10_Witness ==
    /\ SingleReported /\ result.ok /\ Len(job.segs) = MaxSegs
    /\ job.segs[MaxSegs] # <<>>
    /\ Len(out) >= 3
    /\ out[Len(out) - 1].body.marker
    /\ out[Len(out) - 1].body.text # Concat(job.segs)

\* the partial-text edits among the requests of the current message
PartialEdits == {i \in Edits : out[i].body.marker}
LastPartialAt == out[CHOOSE i \in PartialEdits : \A j \in PartialEdits : j <= i].at
\* a step in which on_segment offers a partial edit (single mode)
OfferStep == pc = "segments" /\ cfg = 0 /\ nseg' = nseg + 1

\* C11: the throttle. An offer made at time now' is transmitted exactly when
\* no partial edit of the message was transmitted yet or the last one is at
\* least MIN_EDIT_INTERVAL old, and then it carries the text accumulated so
\* far; a dropped offer changes nothing, and no later step transmits a
\* partial edit (no queue). Any two transmitted partial edits of a message
\* are at least MIN_EDIT_INTERVAL apart. The final edit is transmitted
\* whatever the time since the last partial edit.
C11_Spacing ==
    \A i, j \in PartialEdits : i < j => out[j].at - out[i].at >= MIN_EDIT_INTERVAL
C11_OfferStep ==
    OfferStep =>
        IF PartialEdits = {} \/ now' - LastPartialAt >= MIN_EDIT_INTERVAL
        THEN /\ Len(out') = Len(out) + 1
             /\ SubSeq(out', 1, Len(out)) = out
             /\ out'[Len(out')].api = "editMessageText"
             /\ out'[Len(out')].body.marker
             /\ out'[Len(out')].body.text = full_text'
             /\ out'[Len(out')].at = now'
        ELSE out' = out
C11_NoQueue ==
    ~OfferStep =>
        \A i \in (Len(out) + 1) .. Len(out') :
            ~(out'[i].api = "editMessageText" /\ out'[i].body.marker)
C11_FinalStep ==
    (pc = "report" /\ cfg = 0 /\ pc' = "cleanup")
        => /\ Len(out') = Len(out) + 1
           /\ out'[Len(out')].api = "editMessageText"
           /\ ~out'[Len(out')].body.marker
           /\ out'[Len(out')].at = now
C11_Throttle ==
    /\ []C11_Spacing
    /\ [][C11_OfferStep /\ C11_NoQueue /\ C11_FinalStep]_vars

\* C11 witness: of two offers the second was dropped, and the final edit
\* followed the only partial edit by less than MIN_EDIT_INTERVAL.
C11_Witness ==
    /\ SingleReported /\ Len(job.segs) = 2
    /\ Cardinality(PartialEdits) = 1
    /\ out[Len(out)].api = "editMessageText" /\ ~out[Len(out)].body.marker
    /\ out[Len(out)].at - LastPartialAt < MIN_EDIT_INTERVAL

\* the edits without a continuation marker
FinalEditsSent == Edits \ PartialEdits

\* C12: single mode, the engine completed with non-empty text: exactly one
\* final edit was transmitted, it is the last request of the message, and it
\* carries the whole text, no continuation marker, and a stats footer with
\* the elapsed time of the transcription and the configuration in use.
C12_OneFinalEditOnSuccess ==
    (SingleReported /\ job.engine = "ok")
        => /\ FinalEditsSent = {Len(out)}
           /\ out[Len(out)].body.msg = "Speech"
           /\ out[Len(out)].body.text = Concat(job.segs)
           /\ out[Len(out)].body.text # <<>>
           /\ out[Len(out)].body.stats # NoFooter
           /\ out[Len(out)].body.stats.elapsed = TotalDuration
           /\ out[Len(out)].body.stats.config = CONFIGS[1]

\* C12 witness: a finished message whose placeholder was created, with two
\* partial edits before the final one.
C12_Witness ==
    /\ Finished /\ SingleReported /\ job.engine = "ok"
    /\ message_id # None
    /\ Cardinality(PartialEdits) = 2
    /\ Len(out) = 4

\* C13: single mode, the engine raised (before or after some segments) or
\* the accumulated text is empty: exactly one final edit was transmitted, it
\* carries the fixed failure message and no stats footer, and it is the last
\* request of the message, whatever partial edits went before it.
C13_OneFinalEditOnFailure ==
    (SingleReported /\ job.engine \in {"raised", "empty"})
        => /\ FinalEditsSent = {Len(out)}
           /\ out[Len(out)].body.msg = "CouldNot"
           /\ out[Len(out)].body.text = <<>>
           /\ out[Len(out)].body.stats = NoFooter

\* C13 witness: the engine raised after a segment with text whose partial
\* edit had been transmitted; the message is finished.
C13_Witness ==
    /\ Finished /\ SingleReported /\ job.engine = "raised"
    /\ \E i \in PartialEdits : out[i].body.text # <<>>
    /\ out[Len(out)].body.msg = "CouldNot"

FanOutReported == pc \in {"cleanup", "done"} /\ job.converted = "ok" /\ MULTI_CONFIG_MODE

\* C14: fan-out mode with a grid of k configurations. A converted voice
\* message gets one announcement and then k result messages in grid order;
\* the message of configuration i is a success with the footer of
\* configuration i when its transcription gave text, and a failure notice
\* naming i otherwise. After any result, failed or not, the loop goes on to
\* configuration i + 1, and after the k-th to cleanup and the next update.
C14_Shape ==
    FanOutReported
        => /\ Len(out) = Len(CONFIGS) + 1
           /\ out[1].api = "sendMessage" /\ out[1].body.msg = "Processing"
           /\ out[1].body.idx = Len(CONFIGS)
           /\ \A i \in 1 .. Len(CONFIGS) :
                /\ out[i + 1].api = "sendMessage"
                /\ \/ /\ out[i + 1].body.msg = "Speech"
                      /\ out[i + 1].body.stats # NoFooter
                      /\ out[i + 1].body.stats.config = CONFIGS[i]
                   \/ /\ out[i + 1].body.msg = "Failed"
                      /\ out[i + 1].body.stats = NoFooter
                      /\ out[i + 1].body.idx = i
C14_ReportStep ==
    (pc = "report" /\ cfg > 0 /\ pc' # "start")
        => /\ Len(out) = cfg
           /\ Len(out') = cfg + 1
           /\ SubSeq(out', 1, cfg) = out
           /\ IF job.engine = "ok"
              THEN /\ out'[cfg + 1].body.msg = "Speech"
                   /\ out'[cfg + 1].body.text = Concat(job.segs)
                   /\ out'[cfg + 1].body.stats.elapsed = TotalDuration
                   /\ out'[cfg + 1].body.stats.config = CONFIGS[cfg]
              ELSE /\ out'[cfg + 1].body.msg = "Failed"
                   /\ out'[cfg + 1].body.idx = cfg
           /\ IF cfg < Len(CONFIGS)
              THEN pc' = "transcribe" /\ cfg' = cfg + 1
              ELSE pc' = "cleanup"
C14_ThenNextUpdate ==
    (FanOutReported /\ pc' # "start")
        => /\ pc = "cleanup" => pc' = "done"
           /\ pc = "done" => (pc' = "for" /\ updates' = updates)
C14_FanOut == []C14_Shape /\ [][C14_ReportStep /\ C14_ThenNextUpdate]_vars

\* C14 witness: k = 2, configuration 1 failed and configuration 2 succeeded:
\* the finished message has the announcement, one failure notice naming
\* configuration 1, then one success message.
C14_Witness ==
    /\ Finished /\ FanOutReported /\ Len(CONFIGS) = 2
    /\ out[2].body.msg = "Failed" /\ out[2].body.idx = 1
    /\ out[3].body.msg = "Speech" /\ out[3].body.stats.config = CONFIGS[2]

\* the grid has been built
GridBuilt == pc # "import"
GridSize == Len(lists[1]) * Len(lists[2]) * Len(lists[3]) * Len(lists[4])
NoRepeat(l) == \A i, j \in 1 .. Len(l) : i # j => l[i] # l[j]
PairwiseDistinct == \A i, j \in 1 .. Len(CONFIGS) : i # j => CONFIGS[i] # CONFIGS[j]

\* C15 as stated: for all non-empty lists, repeats included, the grid has
\* n1*n2*n3*n4 configurations and they are pairwise distinct.
\* Violated: product() keeps the repeats of a list that repeats a value.
C15_GridSizeAndDistinct ==
    GridBuilt => (Len(CONFIGS) = GridSize /\ PairwiseDistinct)

\* C15 amended: the grid has n1*n2*n3*n4 configurations, and they are
\* pairwise distinct exactly when no list repeats a value.
C15_GridSizeDistinctIffNoRepeat ==
    GridBuilt
        => /\ Len(CONFIGS) = GridSize
           /\ PairwiseDistinct <=> (\A d \in 1 .. 4 : NoRepeat(lists[d]))

\* C15 witness: VAD_FILTER = "true,True" parses to a list that repeats TRUE,
\* and the grid built from it holds the same configuration twice.
C15_Witness ==
    /\ GridBuilt
    /\ lists[3] = <<TRUE, TRUE>> /\ Len(lists[1]) = 2
    /\ Len(CONFIGS) = GridSize
    /\ CONFIGS[1] = CONFIGS[2]

\* the position of the configuration made of the a-th model, b-th beam size,
\* c-th VAD flag and d-th thread count in four nested loops, model outermost
NestedPosition(a, b, c, d) ==
    (((a - 1) * Len(lists[2]) + (b - 1)) * Len(lists[3]) + (c - 1)) * Len(lists[4]) + d

\* C16: the grid is in nested-iteration order: model outermost, then beam
\* size, then VAD flag, thread count innermost, each list in its configured
\* order. The grid is therefore a function of the four lists, and the index
\* i of enumerate(CONFIGS, 1) is the position in that order.
C16_NestedOrder ==
    GridBuilt
        => \A a \in 1 .. Len(lists[1]), b \in 1 .. Len(lists[2]),
              c \in 1 .. Len(lists[3]), d \in 1 .. Len(lists[4]) :
                /\ NestedPosition(a, b, c, d) \in 1 .. Len(CONFIGS)
                /\ CONFIGS[NestedPosition(a, b, c, d)]
                      = <<lists[1][a], lists[2][b], lists[3][c], lists[4][d]>>

\* C16 witness: a grid of 16 configurations from four lists of two different
\* values each; the second entry differs from the first in the thread count
\* only, the ninth in the model.
C16_Witness ==
    /\ GridBuilt /\ Len(CONFIGS) = 16
    /\ \A d \in 1 .. 4 : NoRepeat(lists[d])
    /\ CONFIGS[2] = <<lists[1][1], lists[2][1], lists[3][1], lists[4][2]>>
    /\ CONFIGS[9] = <<lists[1][2], lists[2][1], lists[3][1], lists[4][1]>>

\* the requests of the two reporting protocols
Streaming(req) ==
    \/ req.api = "sendMessage" /\ req.body.msg = "Transcribing"
    \/ req.api = "editMessageText" /\ req.body.msg \in {"Speech", "CouldNot"}
FanOut(req) ==
    /\ req.api = "sendMessage"
    /\ req.body.msg \in {"Processing", "Speech", "Failed"}
Reporting == pc \in {"transcribe", "segments", "report", "cleanup", "done"} /\ job.converted = "ok"

\* C17: mode selection. With a grid of one configuration every request of a
\* voice message belongs to the placeholder-and-edit protocol, starting with
\* the placeholder; with a larger grid every request belongs to the fan-out
\* protocol, starting with the announcement. The grid is the same in every
\* state, restarts included, and partial results are collected only in
\* streaming mode (cfg = 0).
C17_ModeByGridSize ==
    /\ Len(CONFIGS) >= 1
    /\ Len(CONFIGS) = 1 =>
          /\ \A i \in 1 .. Len(out) : Streaming(out[i]) /\ ~FanOut(out[i])
          /\ pc # "announce"
          /\ Reporting => (out[1].body.msg = "Transcribing" /\ cfg = 0)
    /\ Len(CONFIGS) > 1 =>
          /\ \A i \in 1 .. Len(out) : FanOut(out[i]) /\ ~Streaming(out[i])
          /\ pc # "placeholder"
          /\ Reporting => (out[1].body.msg = "Processing" /\ cfg >= 1)
C17_ModeSelection == []C17_ModeByGridSize /\ [][CONFIGS' = CONFIGS]_vars

\* C17 witness: a process with a grid of one configuration that was restarted
\* after a checkpoint was stored and has since finished a voice message with
\* placeholder, partial edit and final edit.
C17_Witness ==
    /\ Finished /\ Len(CONFIGS) = 1 /\ hist.start_ckpt > 0
    /\ Len(out) >= 3
    /\ PartialEdits # {}

\* C18: a long-poll request that fails (no request, no response, malformed
\* response) yields the empty batch: no update is taken or dispatched, the
\* checkpoint file and last_update_id keep their values, and the only step
\* of the loop that follows is the sleep that leads to the next poll, which
\* therefore uses the same offset.
C18_FailedPollStep ==
    (pc = "poll" /\ pc' = "for" /\ job'.net # "ok")
        => /\ updates' = <<>>
           /\ update' = NoUpdate
           /\ ckptFile' = ckptFile
           /\ last_update_id' = last_update_id
           /\ hist'.dispatched = hist.dispatched
C18_ThenSleepStep ==
    (pc = "for" /\ job.net \in NetOutcomes \ {"ok"} /\ pc' # "start")
        => /\ pc' = "poll"
           /\ ckptFile' = ckptFile
           /\ Offset(last_update_id') = Offset(last_update_id)
C18_FailedPollIsEmptyBatch == [][C18_FailedPollStep /\ C18_ThenSleepStep]_vars

\* C18 witness: the response to a poll with offset FirstId + 1 was lost while
\* update FirstId + 1 was waiting at the platform; the batch is empty and the
\* checkpoint still holds FirstId.
C18_Witness ==
    /\ pc = "for" /\ job.net = "no_response" /\ updates = <<>>
    /\ last_update_id = FirstId /\ CheckpointHolds(FirstId)
    /\ Len(feed) = 2

\* C19: only get_last_update_id stops the process. A step of the pipeline of
\* update u, failed or not, leads to another pipeline stage or to the end of
\* the iteration and leaves the rest of the batch as it is; the iteration
\* over, the loop takes the next update of the batch, whose checkpoint is
\* written and which enters the pipeline when it is a voice message (unless
\* that checkpoint write itself fails); the batch drained, the loop polls.
C19_OnlyStartupStops == (pc' = "dead" /\ pc # "dead") => pc = "start"
C19_PipelineStep ==
    (InPipeline /\ pc' # "start")
        => /\ pc' = "done" \/ InPipeline'
           /\ updates' = updates
           /\ update' = update
C19_LoopStep ==
    (pc \in {"done", "for"} /\ pc' # "start")
        => /\ pc = "done" => (pc' = "for" /\ updates' = updates)
           /\ (pc = "for" /\ updates = <<>>) => pc' = "poll"
           /\ (pc = "for" /\ updates # <<>>) =>
                 /\ update' = Head(updates)
                 /\ updates' = Tail(updates)
                 /\ last_update_id' = Head(updates).update_id
                 /\ \/ job'.skipped = "write_failed"
                    \/ /\ ckptFile'.exists /\ Parses(ckptFile'.text)
                       /\ int(ckptFile'.text) = Head(updates).update_id
                       /\ pc' = IF Head(updates).kind = "voice" THEN "download" ELSE "done"
C19_FailuresDoNotStopTheLoop ==
    [][C19_OnlyStartupStops /\ C19_PipelineStep /\ C19_LoopStep]_vars

\* C19 witness: the second voice message of a batch is in the pipeline, with
\* its checkpoint written, in a process that was never restarted and in
\* which the first left a temp file behind (its download failed after the
\* file was created, or its cleanup failed).
C19_Witness ==
    /\ pc = "download" /\ update.update_id = FirstId + 1
    /\ CheckpointHolds(FirstId + 1)
    /\ FirstId \in hist.dispatched /\ hist.killed = {} /\ hist.start_ckpt = 0
    /\ confirmed = FirstId - 1
    /\ files # {}

\* C20: one message at a time. While the loop polls or picks the next
\* update, no message is open: no update is held, no request of it is
\* pending in the log and no local of the pipeline is set. Requests are
\* issued and temp files written or removed only by the pipeline of the
\* update currently held. An update is taken only when none is held, and
\* its id is above every id dispatched before, so all the downloads, file
\* writes, sends, edits and the cleanup of an update come before those of
\* any later one.
C20_NoneOpenWhenPolling ==
    pc \in {"poll", "for"}
        => /\ update = NoUpdate /\ out = <<>>
           /\ voice_file = None /\ wav_file = None
           /\ job.skipped = "none" /\ job.acquired = NewJob.acquired
C20_EffectsInsidePipeline ==
    ((Len(out') > Len(out) \/ files' # files) /\ pc' # "start")
        => InPipeline /\ update' = update /\ update # NoUpdate
C20_TakenInOrder ==
    (update' # update /\ update' # NoUpdate)
        => /\ pc = "for" /\ update = NoUpdate
           /\ \A d \in hist.dispatched : d < update'.update_id
C20_OneMessageAtATime ==
    []C20_NoneOpenWhenPolling /\ [][C20_EffectsInsidePipeline /\ C20_TakenInOrder]_vars

\* C20 witness: the second voice message is at its cleanup with both temp
\* files written and its requests issued, after the first was dispatched.
C20_Witness ==
    /\ pc = "cleanup" /\ update.update_id = FirstId + 1
    /\ FirstId \in hist.dispatched
    /\ files = TempFiles
    /\ Len(out) >= 2

\* a session with both figures, reported
Reported == pc = "reported"
Timed ==
    /\ session.end_time # Absent /\ session.audio_duration_seconds # Absent
    /\ session.end_time[1] > session.start_time
    /\ session.audio_duration_seconds[1] > 0

\* C21: the realtime factor reported for a session is its processing time
\* divided by its audio duration (as a fraction: num * duration = den *
\* elapsed), it is reported for every session with a positive processing
\* time and duration, and for a duration of 10.0 s (40 ticks) and a
\* processing time of 2.5 s (10 ticks) it is 1/4.
C21_FactorIsElapsedOverDuration ==
    Reported
        => LET elapsed == session.end_time[1] - session.start_time
               duration == session.audio_duration_seconds[1]
               f == session.realtime_factor
           IN  /\ f # Absent =>
                     /\ Timed
                     /\ f[1].num * duration = f[1].den * elapsed
                     /\ f[1].den > 0
                     /\ f[1] = Ratio(f[1].num, f[1].den)
               /\ Timed => f # Absent
               /\ (Timed /\ duration = 4 * elapsed) => f = Some([num |-> 1, den |-> 4])

\* C21 witness: the session of the example, 40 ticks of audio processed in
\* 10 ticks, reported with factor 1/4; the footer of the bot shows the
\* reciprocal for the same figures, a speed of 4.
C21_Witness ==
    /\ Reported /\ Timed
    /\ session.audio_duration_seconds = Some(40)
    /\ session.end_time[1] - session.start_time = 10
    /\ session.realtime_factor = Some([num |-> 1, den |-> 4])
    /\ speed(40, 10) = [num |-> 4, den |-> 1]

\* the (model name, threads) key of a configuration
KeyOf(config) == <<config[1], config[4]>>
Keys == {<<lists[1][i], lists[4][j]>> : i \in 1 .. Len(lists[1]), j \in 1 .. Len(lists[4])}

\* C22: the engine cache. Once the module is imported, one instance was
\* created per distinct (model name, threads) key and stored under that key,
\* every configuration of the grid has its key in the cache, the cache is
\* the same in every later state, and a running transcription uses the
\* instance stored under the key of the configuration it was called for.
C22_CacheShape ==
    GridBuilt
        => /\ NoRepeat(models.created)
           /\ DOMAIN models.cache = Keys
           /\ {models.created[i] : i \in 1 .. Len(models.created)} = Keys
           /\ \A i \in 1 .. Len(models.created) : models.cache[models.created[i]] = i
           /\ \A i \in 1 .. Len(CONFIGS) : KeyOf(CONFIGS[i]) \in DOMAIN models.cache
C22_JobUsesOwnInstance ==
    pc \in {"segments", "report"}
        => job.instance = models.cache[KeyOf(IF MULTI_CONFIG_MODE THEN CONFIGS[cfg] ELSE CONFIGS[1])]
C22_EngineCache ==
    /\ [](C22_CacheShape /\ C22_JobUsesOwnInstance)
    /\ [][models' = models]_vars

\* C22 witness: fan-out over two thread counts; the transcription of the
\* second configuration ran on the second of the two instances, after the
\* first configuration ran on the first.
C22_Witness ==
    /\ pc = "report" /\ cfg = 2
    /\ Len(models.created) = 2
    /\ KeyOf(CONFIGS[1]) # KeyOf(CONFIGS[2])
    /\ job.instance = 2
    /\ job.engine = "ok"

Scored == pc = "scored"
\* a successful run with a ground truth
Rated == bench.success /\ bench.ground_truth # <<>>
Distance ==
    EditDistance(bench.ground_truth, normalize_text(bench.transcript),
                 Len(bench.ground_truth), Len(normalize_text(bench.transcript)))

\* C23 as stated: for a successful run with ground truth and a non-empty
\* normalized transcript the reported figure is exactly the word-level edit
\* distance divided by the number of ground-truth words (1/3 for "il gatto
\* dorme" against "il cane dorme"); for an empty normalized transcript 1.0.
\* The figure is in units of 0.0001.
\* Violated: the figure is rounded to four decimals, 1/3 is reported as 0.3333.
C23_WerIsDistanceOverWords ==
    (Scored /\ Rated)
        => /\ bench.wer # Absent
           /\ IF normalize_text(bench.transcript) = <<>>
              THEN bench.wer[1] = 10000
              ELSE bench.wer[1] * Len(bench.ground_truth) = 10000 * Distance

\* C23 amended: the reported figure is the edit distance divided by the
\* number of ground-truth words, rounded to four decimals (within 0.00005 of
\* the quotient): 0.0 for the identical hypothesis, 0.3333 for "il cane
\* dorme" against "il gatto dorme", and 1.0 for an empty normalized
\* transcript; a run that failed or has no ground truth reports none.
C23_WerIsRoundedDistanceOverWords ==
    Scored
        => /\ ~Rated => bench.wer = Absent
           /\ Rated =>
                /\ bench.wer # Absent
                /\ IF normalize_text(bench.transcript) = <<>>
                   THEN bench.wer[1] = 10000
                   ELSE LET n == Len(bench.ground_truth)
                            exact == 10000 * Distance
                        IN  /\ 2 * (bench.wer[1] * n - exact) <= n
                            /\ 2 * (exact - bench.wer[1] * n) <= n
                /\ bench.ground_truth = <<"il", "gatto", "dorme">> =>
                      /\ bench.transcript = <<"il", "gatto", "Dorme.">> => bench.wer[1] = 0
                      /\ bench.transcript = <<"il", "cane", "Dorme.">> => bench.wer[1] = 3333

\* C23 witness: ground truth "il gatto dorme", transcript "il cane Dorme.",
\* one substitution in three words, reported as 0.3333.
C23_Witness ==
    /\ Scored /\ Rated
    /\ bench.ground_truth = <<"il", "gatto", "dorme">>
    /\ bench.transcript = <<"il", "cane", "Dorme.">>
    /\ Distance = 1
    /\ bench.wer = Some(3333)

\* the download of the update in hand failed
Dropped == pc \in {"cleanup", "done"} /\ job.acquired \in {"early", "late"}

\* C24: a failed acquisition is a silent drop. The converter and the engine
\* are not run and no request is issued for the message; the checkpoint file
\* and last_update_id keep the id of the update; the next steps are the
\* cleanup and the end of the iteration, with the rest of the batch intact.
C24_Silent ==
    Dropped
        => /\ out = <<>>
           /\ job.converted = "none"
           /\ job.engine = "none" /\ job.instance = 0
           /\ message_id = None
           /\ CheckpointHolds(update.update_id)
           /\ last_update_id = update.update_id
C24_DropStep ==
    /\ (pc = "download" /\ job'.acquired \in {"early", "late"})
          => (pc' = "cleanup" /\ ckptFile' = ckptFile /\ updates' = updates)
    /\ (Dropped /\ pc = "cleanup" /\ pc' # "start")
          => (pc' = "done" /\ ckptFile' = ckptFile /\ updates' = updates)
    /\ (Dropped /\ pc = "done" /\ pc' # "start")
          => (pc' = "for" /\ ckptFile' = ckptFile /\ updates' = updates)
C24_FailedAcquisitionIsSilent == []C24_Silent /\ [][C24_DropStep]_vars

\* C24 witness: the download of the first update of a batch of two broke off
\* after the local file was created; its iteration is over without any
\* request, and the second update is still to be taken.
C24_Witness ==
    /\ pc = "done" /\ job.acquired = "late"
    /\ update.update_id = FirstId /\ Len(updates) = 1
    /\ out = <<>>

\* the conversion of the update in hand failed
NotConverted == pc \in {"cleanup", "done"} /\ job.converted = "failed"

\* C25: a failed conversion aborts the message, in both modes: no
\* placeholder, announcement or other request is issued and no engine is
\* run; the step after the failed conversion is the cleanup, after which
\* each temp file is gone unless its own removal failed.
C25_Aborted ==
    NotConverted
        => /\ out = <<>>
           /\ message_id = None
           /\ job.engine = "none" /\ job.instance = 0
           /\ pc = "done" => (files \cap TempFiles) \subseteq job.rm_failed
C25_AbortStep ==
    /\ (pc = "convert" /\ job'.converted = "failed") => pc' = "cleanup"
    /\ (NotConverted /\ pc = "cleanup" /\ pc' # "start") => pc' = "done"
C25_FailedConversionAborts == []C25_Aborted /\ [][C25_AbortStep]_vars

\* C25 witness: in fan-out mode the converter failed; the cleanup ran and
\* left no temp file, and nothing was sent.
C25_Witness ==
    /\ pc = "done" /\ job.converted = "failed" /\ MULTI_CONFIG_MODE
    /\ job.rm_failed = {} /\ files = {}
    /\ out = <<>>

\* the offset the next long-poll request carries (0: none)
PollOffset == Offset(last_update_id)

\* C26: whenever a poll is about to be issued, its offset is the persisted
\* checkpoint plus one when that checkpoint is > 0, and absent when it is 0.
\* Violated: after a checkpoint write that failed and was swallowed (C5) the
\* offset follows last_update_id, which is ahead of the file.
C26_OffsetIsPersistedPlusOne ==
    pc = "poll"
        => /\ ckptFile.exists /\ Parses(ckptFile.text)
           /\ PollOffset = IF CheckpointValue > 0 THEN CheckpointValue + 1 ELSE 0

\* a step in which get_last_update_id returns
ReadReturns == pc \in {"store", "read"} /\ pc' = "read"

\* C27: the round trip of the checkpoint store. A read that returns when no
\* file exists returns 0 and leaves a file holding "0"; a read that returns
\* after set_last_update_id(id) returned gives back id, for every id from 0
\* to MaxId and whatever was written before, and leaves the file as it is.
C27_ReadStep ==
    ReadReturns
        => /\ ~ckptFile.exists =>
                 (last_update_id' = 0 /\ ckptFile' = FileWith(<<0>>))
           /\ (ckptFile.exists /\ ~hist.ckpt_fault) =>
                 (last_update_id' = hist.stored /\ ckptFile' = ckptFile)
C27_RoundTrip == [][C27_ReadStep]_vars

\* C27 witness: 3 was written over 12 and then read back as 3.
C27_Witness ==
    /\ pc = "read"
    /\ hist.replaced = 12 /\ hist.stored = 3 /\ ~hist.ckpt_fault
    /\ last_update_id = 3
    /\ ckptFile = FileWith(<<3>>)

\* C28: fan-out mode never streams. In fan-out mode no editMessageText is
\* ever issued and no segment changes the requests; while configuration cfg
\* is being transcribed only the announcement and the results of the cfg - 1
\* configurations before it have been sent. In single mode the only
\* sendMessage of a message is the placeholder, the first request.
C28_NoStreaming ==
    /\ MULTI_CONFIG_MODE =>
          /\ Edits = {}
          /\ pc \in {"transcribe", "segments", "report"} => Len(out) = cfg
    /\ ~MULTI_CONFIG_MODE =>
          \A i \in 1 .. Len(out) :
              out[i].api = "sendMessage" => (i = 1 /\ out[i].body.msg = "Transcribing")
C28_SegmentStep ==
    (MULTI_CONFIG_MODE /\ pc = "segments" /\ pc' \in {"segments", "report"})
        => (out' = out /\ last_edit_time' = last_edit_time)
C28_FanOutNeverStreams == []C28_NoStreaming /\ [][C28_SegmentStep]_vars

\* C28 witness: fan-out mode, the first configuration has yielded two
\* segments with text and finished; only the announcement has been sent.
C28_Witness ==
    /\ MULTI_CONFIG_MODE /\ pc = "report" /\ cfg = 1
    /\ job.engine = "ok" /\ Len(job.segs) = 2 /\ Len(full_text) = 2
    /\ Len(out) = 1 /\ out[1].body.msg = "Processing"

\* C29: an update without a voice attachment (a text message, or an update
\* without message payload) is skipped. Taking it sets the in-memory
\* identifier and calls set_last_update_id with its identifier (the file
\* holds it when the write succeeded), ends the turn of the loop, sends and
\* edits nothing, touches no temp file and dispatches nothing; the turn
\* ends with the rest of the batch untouched, so the updates after it are
\* taken by the same loop head.
C29_SkipStep ==
    (pc = "for" /\ updates # <<>> /\ Head(updates).kind # "voice" /\ pc' # "start")
        => /\ pc' = "done"
           /\ updates' = Tail(updates)
           /\ last_update_id' = Head(updates).update_id
           /\ \E io \in WriteOutcomes :
                 ckptFile' = set_last_update_id(ckptFile, Head(updates).update_id, io)
           /\ job'.skipped \in {"text", "nomsg"} =>
                 /\ ckptFile'.exists /\ Parses(ckptFile'.text)
                 /\ int(ckptFile'.text) = Head(updates).update_id
           /\ out' = out /\ files' = files
           /\ hist'.dispatched = hist.dispatched
C29_Skipped ==
    job.skipped \in {"text", "nomsg"} =>
        /\ pc = "done" /\ update.kind = job.skipped
        /\ out = <<>> /\ voice_file = None /\ wav_file = None /\ message_id = None
        /\ job.acquired = "none" /\ job.converted = "none" /\ job.engine = "none"
        /\ update.update_id \notin hist.dispatched
C29_ResumeStep ==
    (pc = "done" /\ job.skipped \in {"text", "nomsg"} /\ pc' # "start")
        => /\ pc' = "for" /\ updates' = updates
           /\ files' = files /\ ckptFile' = ckptFile /\ out' = <<>>
C29_NonVoiceIsSkipped ==
    []C29_Skipped /\ [][C29_SkipStep /\ C29_ResumeStep]_vars

\* C29 witness: a batch of two, an update without message payload followed
\* by a voice message (the first is still unconfirmed, so both came in one
\* answer); the first was skipped and the second entered the pipeline with
\* its identifier in the checkpoint.
C29_Witness ==
    /\ Len(feed) = 2 /\ feed[1] = "nomsg" /\ feed[2] = "voice"
    /\ confirmed < IdOf(1)
    /\ pc = "download" /\ update = UpdateAt(feed, 2)
    /\ hist.dispatched = {IdOf(2)}
    /\ CheckpointHolds(IdOf(2))

\* C30: cleanup failures are never fatal. The cleanup step removes every
\* existing temp file whose own os.remove did not fail, whatever happened to
\* the other one, ends the turn of the loop, and sends nothing; a turn whose
\* cleanup failed ends like any other, with the rest of the batch untouched.
C30_CleanupStep ==
    (pc = "cleanup" /\ pc' # "start")
        => /\ pc' = "done"
           /\ job'.rm_failed \subseteq Removable({voice_file, wav_file})
           /\ files' = files \ (Removable({voice_file, wav_file}) \ job'.rm_failed)
           /\ out' = out /\ updates' = updates /\ ckptFile' = ckptFile
C30_ContinueStep ==
    (pc = "done" /\ job.rm_failed # {} /\ pc' # "start")
        => (pc' = "for" /\ updates' = updates /\ files' = files)
C30_CleanupFailureIsNotFatal == [][C30_CleanupStep /\ C30_ContinueStep]_vars

\* C30 witness: both temp files existed, removing the downloaded file
\* failed and the converted file was removed all the same; the turn has
\* ended and another update of the batch is waiting.
C30_Witness ==
    /\ pc = "done" /\ job.converted = "ok"
    /\ job.rm_failed = {VOICE_FILE_PATH}
    /\ files \cap TempFiles = {VOICE_FILE_PATH}
    /\ updates # <<>>

\* C31: send and edit failures never abort the pipeline. Every step that
\* issues a request goes on to the stage that follows it, whether the request
\* was delivered or failed: the placeholder and the announcement to the
\* transcription, a partial edit to the next segment, the final edit to the
\* cleanup, the message of a configuration to the next configuration or,
\* after the last one, to the cleanup. A converted message whose turn has
\* ended has its transcription ended, its final edit (single mode) or one
\* message per configuration (fan-out mode) issued, and its temp files
\* removed unless their removal failed, also when the placeholder was
\* never delivered.
C31_RequestStep ==
    (Len(out') = Len(out) + 1 /\ pc' # "start")
        => /\ pc \in {"placeholder", "announce"} => pc' = "transcribe"
           /\ pc = "segments" => pc' = "segments"
           /\ (pc = "report" /\ cfg = 0) => pc' = "cleanup"
           /\ (pc = "report" /\ cfg > 0 /\ cfg < Len(CONFIGS))
                 => (pc' = "transcribe" /\ cfg' = cfg + 1)
           /\ (pc = "report" /\ cfg > 0 /\ cfg = Len(CONFIGS)) => pc' = "cleanup"
C31_Completed ==
    (Finished /\ job.converted = "ok")
        => /\ job.engine \in {"ok", "empty", "raised"}
           /\ ~MULTI_CONFIG_MODE =>
                 (FinalEditsSent # {} /\ Len(out) \in FinalEditsSent)
           /\ MULTI_CONFIG_MODE => Len(out) = Len(CONFIGS) + 1
           /\ files \cap TempFiles = job.rm_failed
C31_RequestFailuresDoNotAbort == []C31_Completed /\ [][C31_RequestStep]_vars

\* C31 witness: single mode, the placeholder send failed (no message id, so
\* no edit of this message can succeed either); a partial edit and the
\* final edit were issued all the same, the engine completed, and the
\* cleanup removed both temp files.
C31_Witness ==
    /\ Finished /\ ~MULTI_CONFIG_MODE /\ message_id = None
    /\ job.engine = "ok"
    /\ PartialEdits # {} /\ FinalEditsSent # {}
    /\ files \cap TempFiles = {} /\ job.rm_failed = {}

\* C32: single mode. A transmitted partial edit carries the texts of the
\* segments yielded so far, S1..Si with i the number of segments yielded,
\* and the continuation marker. Over the requests of one message the
\* partial edits can be assigned strictly increasing prefix lengths whose
\* accumulated text they carry; the placeholder is the first request, and
\* every final edit comes after every partial edit.
C32_PartialStep ==
    (OfferStep /\ Len(out') = Len(out) + 1)
        => LET e == out'[Len(out')]
           IN  /\ e.api = "editMessageText" /\ e.body.msg = "Speech"
               /\ e.body.marker
               /\ e.body.text = Concat(SubSeq(job'.segs, 1, nseg'))
               /\ Len(job'.segs) = nseg'
               /\ \A j \in PartialEdits : out'[j] = out[j]
C32_PrefixOrder ==
    (Reporting /\ ~MULTI_CONFIG_MODE)
        => /\ \E f \in [PartialEdits -> 1 .. Len(job.segs)] :
                 /\ \A a, b \in PartialEdits : a < b => f[a] < f[b]
                 /\ \A a \in PartialEdits :
                       out[a].body.text = Concat(SubSeq(job.segs, 1, f[a]))
           /\ PartialEdits # {} =>
                 (out[1].api = "sendMessage" /\ out[1].body.msg = "Transcribing")
           /\ \A a \in PartialEdits : a > 1
           /\ \A a \in PartialEdits, b \in FinalEditsSent : a < b
C32_PartialEditsArePrefixes == []C32_PrefixOrder /\ [][C32_PartialStep]_vars

\* C32 witness: two segments with text, each transmitted: the requests are
\* the placeholder, the edit with S1, the edit with S1 S2, the final edit.
C32_Witness ==
    /\ Finished /\ ~MULTI_CONFIG_MODE
    /\ Len(out) = 4 /\ PartialEdits = {2, 3} /\ FinalEditsSent = {4}
    /\ out[2].body.text = <<1>> /\ out[3].body.text = <<1, 2>>
    /\ job.segs = <<<<1>>, <<2>>>>

\* C33: the stages of a voice message occur in the order acquire, convert,
\* transcribe, report, cleanup. Each stage is entered only from the stage
\* before it: the conversion from a successful acquisition, the first
\* request and the engine from a successful conversion, a report from the
\* engine, the cleanup from a failed acquisition, a failed conversion or
\* the last report. The turn of a dispatched voice message ends only out
\* of the cleanup, the cleanup is left only to the end of the turn, and
\* after it nothing is sent and no temp file is touched for that message.
C33_StageStep ==
    (pc' # pc /\ pc' # "start")
        => /\ pc' = "download" => (pc = "for" /\ Head(updates).kind = "voice")
           /\ pc' = "convert" => (pc = "download" /\ job'.acquired = "ok")
           /\ pc' \in {"announce", "placeholder"} =>
                 (pc = "convert" /\ job'.converted = "ok")
           /\ pc' = "transcribe" =>
                 (pc \in {"announce", "placeholder", "report"} /\ job.converted = "ok")
           /\ pc' = "segments" => pc = "transcribe"
           /\ pc' = "report" => pc \in {"transcribe", "segments"}
           /\ pc' = "cleanup" =>
                 \/ pc = "download" /\ job'.acquired # "ok"
                 \/ pc = "convert" /\ job'.converted = "failed"
                 \/ pc = "report" /\ (cfg = 0 \/ cfg = Len(CONFIGS))
           /\ pc = "cleanup" => pc' = "done"
           /\ (pc' = "done" /\ job'.skipped = "no") => pc = "cleanup"
           /\ (pc = "done" /\ job.skipped = "no") =>
                 (pc' = "for" /\ files' = files /\ out' = <<>>)
C33_Staged ==
    /\ pc \in {"convert", "announce", "placeholder", "transcribe", "segments", "report"}
          => job.acquired = "ok"
    /\ pc \in {"announce", "placeholder", "transcribe", "segments", "report"}
          => job.converted = "ok"
    /\ job.engine # "none" => job.converted = "ok"
    /\ InPipeline => update.kind = "voice"
C33_StagesInOrder == []C33_Staged /\ [][C33_StageStep]_vars

\* C33 witness: a voice message went through every stage and one of them
\* failed: acquired, converted, the engine raised after a segment, the
\* failure notice was the last request, and the cleanup, reached after it,
\* removed both temp files and ended the turn.
C33_Witness ==
    /\ pc = "done" /\ job.skipped = "no"
    /\ job.acquired = "ok" /\ job.converted = "ok" /\ job.engine = "raised"
    /\ Len(job.segs) = 1
    /\ Len(out) \in Reports
    /\ files \cap TempFiles = {} /\ job.rm_failed = {}

\* C34: liveness of the ingestion loop. Provided every external call
\* returns or fails and the process is not shut down, a batch in hand is
\* eventually drained and the loop is back at the long poll, and a pending
\* long poll is eventually issued; the program has a next step in every
\* state but the one reached by a checkpoint failure at startup, and it
\* reaches that state from nowhere else.
C34_NoTerminalState ==
    /\ pc # "dead" => ENABLED Program
    /\ pc = "dead" => hist.ckpt_fault
C34_DeadOnlyAtStartup == (pc' = "dead" /\ pc # "dead") => (pc = "start" /\ hist'.ckpt_fault)
C34_LoopIsLive ==
    /\ []C34_NoTerminalState
    /\ [][C34_DeadOnlyAtStartup]_vars
    /\ (pc = "for") ~> (pc = "poll")
    /\ (pc = "poll") ~> (pc = "for")

\* C34 witness: a batch of two voice messages, both dispatched in one
\* run of the process, was drained, and the loop is back at the long poll
\* with nothing left of the batch.
C34_Witness ==
    /\ pc = "poll" /\ updates = <<>>
    /\ Len(feed) = 2 /\ feed[1] = "voice" /\ feed[2] = "voice"
    /\ hist.dispatched = {IdOf(1), IdOf(2)} /\ hist.killed = {}
    /\ last_update_id = IdOf(2)
    /\ confirmed < IdOf(1)

\* C35: the throttle state of single mode. The placeholder step sets the
\* last-edit time to zero whatever it was, and the first offer of a message
\* is transmitted. An offer that is dropped leaves the last-edit time as it
\* was; an offer that is transmitted sets it to the time of the offer,
\* whether the request is delivered or fails. The final edit is issued
\* whatever the last-edit time and leaves it unchanged.
C35_FreshStep ==
    (pc = "placeholder" /\ pc' = "transcribe") => last_edit_time' = 0
C35_OfferStep ==
    OfferStep =>
        /\ nseg = 0 => (last_edit_time = 0 /\ Len(out') = Len(out) + 1)
        /\ out' = out => last_edit_time' = last_edit_time
        /\ out' # out => (last_edit_time' = now' /\ out'[Len(out')].at = now'
                           /\ pc' = "segments")
C35_FinalStep ==
    (pc = "report" /\ cfg = 0 /\ pc' = "cleanup")
        => (Len(out') = Len(out) + 1 /\ last_edit_time' = last_edit_time)
C35_ThrottleState == [][C35_FreshStep /\ C35_OfferStep /\ C35_FinalStep]_vars

\* C35 witness: the second message of a run. Its first offer was
\* transmitted, its second offer, one tick later, was dropped, and the final
\* edit followed: the last-edit time is still the time of the first offer.
C35_Witness ==
    /\ pc = "cleanup" /\ ~MULTI_CONFIG_MODE
    /\ update.update_id = IdOf(2) /\ hist.dispatched = {IdOf(1), IdOf(2)}
    /\ hist.killed = {}
    /\ nseg = 2 /\ PartialEdits = {2} /\ FinalEditsSent = {3}
    /\ last_edit_time = out[2].at /\ out[3].at = out[2].at + 1

\* C36: whenever a long poll is about to be issued, the in-memory
\* last_update_id is the value the checkpoint file holds.
C36_MemoryIsCheckpoint ==
    pc = "poll" => CheckpointHolds(last_update_id)

\* line i opens a session that line j closes: a 'Voice message received'
\* line, a later 'Sending message' line, and neither phrase in between
OpenedAndClosed(i, j) ==
    /\ i < j
    /\ parser.lines[i] = "voice" /\ parser.lines[j] = "send"
    /\ \A k \in (i + 1) .. (j - 1) : parser.lines[k] \notin {"voice", "send"}
\* the pairs of an opening and its closing line among the lines read
ClosedPairs ==
    {ij \in (1 .. parser.pos) \X (1 .. parser.pos) : OpenedAndClosed(ij[1], ij[2])}
\* the next line is read
ReadStep == pc = "parse" /\ parser'.pos = parser.pos + 1

\* C37: the log-session parser, over any sequence of lines. Every session
\* in the result has an end time, starts at a 'Voice message received' line
\* and ends at the first 'Sending message' line after it, with no other
\* opening line in between; the sessions are in log order, none twice, and
\* they are exactly the opened-and-closed pairs of the lines read, so that a
\* session open at the next opening line or at the end of the file is not
\* in the result. A line read while no session is open, other than an
\* opening line, changes nothing but the position.
C37_Sessions ==
    LET R == parser.sessions
    IN  /\ \A k \in 1 .. Len(R) :
              /\ R[k].end_time # Absent
              /\ R[k].end_time[1] <= parser.pos
              /\ OpenedAndClosed(R[k].start_time, R[k].end_time[1])
        /\ \A k \in 1 .. (Len(R) - 1) : R[k].end_time[1] < R[k + 1].start_time
        /\ Len(R) = Cardinality(ClosedPairs)
        /\ parser.current # Absent => parser.current[1].end_time = Absent
C37_IdleStep ==
    (ReadStep /\ parser.current = Absent /\ parser.lines[parser.pos + 1] # "voice")
        => parser' = [parser EXCEPT !.pos = @ + 1]
C37_DiscardStep ==
    /\ (ReadStep /\ parser.current # Absent /\ parser.lines[parser.pos + 1] = "voice")
          => (parser'.sessions = parser.sessions /\ parser'.current # parser.current)
    /\ (pc = "parse" /\ pc' = "parsed") => parser'.sessions = parser.sessions
C37_ParserSessions == []C37_Sessions /\ [][C37_IdleStep /\ C37_DiscardStep]_vars

\* C37 witness: the log voice, voice, send, send was parsed to its end. The
\* session opened by line 1 was discarded at line 2, the one opened by line
\* 2 was closed by line 3, and line 4, read with no session open, changed
\* nothing.
C37_Witness ==
    /\ pc = "parsed"
    /\ parser.lines = <<"voice", "voice", "send", "send">>
    /\ parser.sessions = <<[NoSession EXCEPT !.start_time = 2, !.end_time = Some(3)]>>
    /\ parser.current = Absent

====
